---- MODULE Spec2Model ----
(***************************************************************************)
(* koto-hashi: the durable webhook-event pipeline.                         *)
(*                                                                         *)
(* The event store (src/src/eventRepo.ts), the processor loop and the      *)
(* retry policy (src/src/eventProcessor.ts) and the handlers and the       *)
(* webhook endpoint of the server (src/unnamed/part_005), run by several   *)
(* worker instances against one store.  Times are milliseconds.            *)
(***************************************************************************)
EXTENDS Integers, Sequences, FiniteSets, TLC

\* ------------------------------------------------------------------ bounds
MaxRows == 2          \* rows the store may hold
MaxClock == 60000     \* the wall clock stops here (ms)
MaxCrashes == 1       \* worker crashes in one behaviour
MaxPasses == 2        \* passes started in one behaviour
MaxProbeAttempt == 12 \* largest attempt number fed to the retry policy

\* ------------------------------------------------------- program constants
BATCH_SIZE == 50
MAX_ATTEMPTS == 5
LEASE_TIME_MS == 60000
MaxDelayMs == 60000
BaseDelayMs == 1000
TRIGGER_INTERVAL_MS == 3000
EVENT_RETENTION_DAYS == 30
DAY_MS == 24 * 60 * 60 * 1000
CLEANUP_INTERVAL_MS == 24 * 60 * 60 * 1000

Workers == {"w1", "w2"}
RowIds == 1..MaxRows

Null == -1            \* SQL NULL of a timestamp column
NullStr == "<null>"   \* SQL NULL of a string column
NoRow == [id |-> 0]   \* an unused slot of the table

ActiveStatuses == {"RECEIVED", "FAILED_RETRYABLE", "PROCESSING"}
TerminalStatuses == {"DONE", "IGNORED", "FAILED_TERMINAL"}

Min(a, b) == IF a <= b THEN a ELSE b

\* ------------------------------------------------- webhook events (inputs)
\* toEventRow: the rows the endpoint builds from the platform's events.
\* evText2 is evText delivered again with another text (same webhookEventId).
evText ==
  [webhookEventId |-> "e1", lineTimestampMs |-> 20, eventType |-> "message",
   replyToken |-> "r1", quoteToken |-> "q1", messageText |-> "hi",
   messageId |-> "m1", isMentioned |-> FALSE, sourceGroupId |-> NullStr]
evText2 == [evText EXCEPT !.messageText = "yo"]
evUnsend ==
  [webhookEventId |-> "e2", lineTimestampMs |-> 10, eventType |-> "unsend",
   replyToken |-> NullStr, quoteToken |-> NullStr, messageText |-> NullStr,
   messageId |-> "m1", isMentioned |-> FALSE, sourceGroupId |-> NullStr]
evJoin ==
  [webhookEventId |-> "e3", lineTimestampMs |-> 20, eventType |-> "join",
   replyToken |-> "r3", quoteToken |-> NullStr, messageText |-> NullStr,
   messageId |-> NullStr, isMentioned |-> FALSE, sourceGroupId |-> "g1"]
\* a text message that mentions the bot, sent in a one-to-one chat (no group)
\* and sent in a group
evMention ==
  [webhookEventId |-> "e4", lineTimestampMs |-> 30, eventType |-> "message",
   replyToken |-> "r4", quoteToken |-> "q4", messageText |-> "@bot en",
   messageId |-> "m4", isMentioned |-> TRUE, sourceGroupId |-> NullStr]
evMentionGroup ==
  [webhookEventId |-> "e5", lineTimestampMs |-> 30, eventType |-> "message",
   replyToken |-> "r5", quoteToken |-> "q5", messageText |-> "@bot en",
   messageId |-> "m5", isMentioned |-> TRUE, sourceGroupId |-> "g1"]
\* events the dispatch has no handler for: an image message (no text, no quote
\* token), payloads that lack the message id, the reply token or the quote
\* token, an unsend without its message id, a follow event
evImage ==
  [webhookEventId |-> "e6", lineTimestampMs |-> 30, eventType |-> "message",
   replyToken |-> "r6", quoteToken |-> NullStr, messageText |-> NullStr,
   messageId |-> "m6", isMentioned |-> FALSE, sourceGroupId |-> NullStr]
evNoMessageId ==
  [evText EXCEPT !.webhookEventId = "e7", !.lineTimestampMs = 30,
                 !.messageId = NullStr]
evNoReplyToken ==
  [evText EXCEPT !.webhookEventId = "e8", !.lineTimestampMs = 30,
                 !.messageId = "m8", !.replyToken = NullStr]
evNoQuoteToken ==
  [evText EXCEPT !.webhookEventId = "e9", !.lineTimestampMs = 30,
                 !.messageId = "m9", !.quoteToken = NullStr]
evUnsendNoId ==
  [evUnsend EXCEPT !.webhookEventId = "e10", !.lineTimestampMs = 30,
                   !.messageId = NullStr]
evFollow ==
  [evJoin EXCEPT !.webhookEventId = "e11", !.lineTimestampMs = 30,
                 !.eventType = "follow", !.sourceGroupId = NullStr]
NewEventRows == {evText, evText2, evUnsend, evJoin, evMention, evMentionGroup,
                 evImage, evNoMessageId, evNoReplyToken, evNoQuoteToken,
                 evUnsendNoId, evFollow}
Batches == {<<evText>>, <<evUnsend>>, <<evText2, evUnsend>>}

\* --------------------------------------------------------------- state
VARIABLES
  clock,      \* Date.now()
  store,      \* table LineWebhookEvent: row id -> row, NoRow when unused
  nextId,     \* the next row id the store assigns
  activeRun,  \* per worker: a pass is in flight
  pc,         \* per worker: position in runProcessorOnce
  now,        \* per worker: `now` captured by the pass
  events,     \* per worker: the rows fetchDueEvents returned (a snapshot)
  idx,        \* per worker: position of the for-loop in events
  result,     \* per worker: what the pass is about to write for the event
  hist,       \* history: per row, successful claims and handler calls
  held,       \* history: per worker, the claim it holds and those it lost
  crashes,    \* history: crashes so far
  passes,     \* history: passes started so far
  probe,      \* the retry policy applied to an input (SpecPolicy)
  srv         \* the server process: timer, HTTP server, store connection,
              \* shutdown, idle-wait and the webhook request in progress

vars == <<clock, store, nextId, activeRun, pc, now, events, idx, result,
          hist, held, crashes, passes, probe, srv>>

Rows(st) == {id \in RowIds : st[id] # NoRow}

\* ------------------------------------------------------------ event store
\* createMany ... skipDuplicates over the unique index on webhookEventId:
\* one row of the batch is inserted unless its webhookEventId is stored.
\* Faulty variant: an upsert whose update branch resets the stored row
InsertRowResetting(st, nid, row, t) ==
  IF \E id \in Rows(st) : st[id].webhookEventId = row.webhookEventId
    THEN [st |-> [id \in RowIds |->
                    IF st[id] # NoRow
                         /\ st[id].webhookEventId = row.webhookEventId
                      THEN [st[id] EXCEPT !.status = "RECEIVED",
                                          !.messageText = row.messageText,
                                          !.nextTryAt = t]
                      ELSE st[id]],
          nid |-> nid]
    ELSE [st |-> [st EXCEPT ![nid] =
                    [id |-> nid,
                     webhookEventId |-> row.webhookEventId,
                     status |-> "RECEIVED",
                     receivedAt |-> t,
                     lineTimestampMs |-> row.lineTimestampMs,
                     eventType |-> row.eventType,
                     replyToken |-> row.replyToken,
                     quoteToken |-> row.quoteToken,
                     messageText |-> row.messageText,
                     messageId |-> row.messageId,
                     isMentioned |-> row.isMentioned,
                     sourceGroupId |-> row.sourceGroupId,
                     attemptCount |-> 0,
                     lastErrorMessage |-> NullStr,
                     nextTryAt |-> t]],
          nid |-> nid + 1]

\* Faulty variant: the new row becomes due only after the base delay
InsertRowDueLater(st, nid, row, t) ==
  IF \E id \in Rows(st) : st[id].webhookEventId = row.webhookEventId
    THEN [st |-> st, nid |-> nid]
    ELSE [st |-> [st EXCEPT ![nid] =
                    [id |-> nid,
                     webhookEventId |-> row.webhookEventId,
                     status |-> "RECEIVED",
                     receivedAt |-> t,
                     lineTimestampMs |-> row.lineTimestampMs,
                     eventType |-> row.eventType,
                     replyToken |-> row.replyToken,
                     quoteToken |-> row.quoteToken,
                     messageText |-> row.messageText,
                     messageId |-> row.messageId,
                     isMentioned |-> row.isMentioned,
                     sourceGroupId |-> row.sourceGroupId,
                     attemptCount |-> 0,
                     lastErrorMessage |-> NullStr,
                     nextTryAt |-> t + BaseDelayMs]],
          nid |-> nid + 1]

InsertRow(st, nid, row, t) ==
  IF \E id \in Rows(st) : st[id].webhookEventId = row.webhookEventId
    THEN [st |-> st, nid |-> nid]
    ELSE [st |-> [st EXCEPT ![nid] =
                    [id |-> nid,
                     webhookEventId |-> row.webhookEventId,
                     status |-> "RECEIVED",
                     receivedAt |-> t,
                     lineTimestampMs |-> row.lineTimestampMs,
                     eventType |-> row.eventType,
                     replyToken |-> row.replyToken,
                     quoteToken |-> row.quoteToken,
                     messageText |-> row.messageText,
                     messageId |-> row.messageId,
                     isMentioned |-> row.isMentioned,
                     sourceGroupId |-> row.sourceGroupId,
                     attemptCount |-> 0,
                     lastErrorMessage |-> NullStr,
                     nextTryAt |-> t]],
          nid |-> nid + 1]

RECURSIVE InsertAll(_, _, _, _)
InsertAll(st, nid, rows, t) ==
  IF rows = <<>> THEN [st |-> st, nid |-> nid]
  ELSE LET r == InsertRow(st, nid, Head(rows), t)
       IN InsertAll(r.st, r.nid, Tail(rows), t)

insertNewEventsBatch(st, nid, rows, t) ==
  IF Len(rows) = 0 THEN [st |-> st, nid |-> nid]
  ELSE InsertAll(st, nid, rows, t)

\* Faulty variant: a row left in PROCESSING is never due again
IsDueUnlessProcessing(row, n) ==
  /\ row.status \in ActiveStatuses \ {"PROCESSING"}
  /\ row.nextTryAt # Null
  /\ row.nextTryAt <= n

\* where: status in (RECEIVED, FAILED_RETRYABLE, PROCESSING), nextTryAt <= now
\* (a NULL nextTryAt matches no comparison)
IsDue(row, n) ==
  /\ row.status \in ActiveStatuses
  /\ row.nextTryAt # Null
  /\ row.nextTryAt <= n

DueIds(st, n) == {id \in Rows(st) : IsDue(st[id], n)}

\* orderBy nextTryAt asc, lineTimestampMs asc
Before(a, b) ==
  \/ a.nextTryAt < b.nextTryAt
  \/ a.nextTryAt = b.nextTryAt /\ a.lineTimestampMs < b.lineTimestampMs

IsOrdered(s) ==
  \A i \in 1..Len(s) : \A j \in 1..Len(s) : i < j => ~Before(s[j], s[i])

\* Faulty variant: the scan leaves out the PROCESSING rows
fetchDueWithoutProcessing(st, limit, n) ==
  LET due == {id \in DueIds(st, n) : st[id].status # "PROCESSING"}
      k == Cardinality(due)
      perms == {f \in [1..k -> due] : \A i, j \in 1..k : i # j => f[i] # f[j]}
      sorted == {[i \in 1..k |-> st[f[i]]] : f \in perms}
  IN {SubSeq(s, 1, Min(limit, k)) : s \in {q \in sorted : IsOrdered(q)}}

\* The results findMany may return: the due rows in that order, rows the order
\* does not separate in either order, cut to the first `limit`.
fetchDueEvents(st, limit, n) ==
  LET due == DueIds(st, n)
      k == Cardinality(due)
      perms == {f \in [1..k -> due] : \A i, j \in 1..k : i # j => f[i] # f[j]}
      sorted == {[i \in 1..k |-> st[f[i]]] : f \in perms}
  IN {SubSeq(s, 1, Min(limit, k)) : s \in {q \in sorted : IsOrdered(q)}}

\* Faulty variant: the claim sets no lease
claimWithoutLease(st, id, n) ==
  IF st[id] # NoRow /\ IsDue(st[id], n)
    THEN [st |-> [st EXCEPT ![id].status = "PROCESSING",
                            ![id].attemptCount = @ + 1],
          claimed |-> TRUE]
    ELSE [st |-> st, claimed |-> FALSE]

\* Faulty variant: the claim reports success whatever the row
claimAlways(st, id, n) == [st |-> st, claimed |-> TRUE]

\* updateMany where id, status, nextTryAt <= now; count = 1 iff it matched.
claimEventForProcessing(st, id, n) ==
  IF st[id] # NoRow /\ IsDue(st[id], n)
    THEN [st |-> [st EXCEPT ![id].status = "PROCESSING",
                            ![id].attemptCount = @ + 1,
                            ![id].nextTryAt = n + LEASE_TIME_MS],
          claimed |-> TRUE]
    ELSE [st |-> st, claimed |-> FALSE]

\* Faulty variant: DONE is written without clearing nextTryAt
markEventDoneKeepingNextTryAt(st, id) ==
  [st EXCEPT ![id].status = "DONE",
             ![id].lastErrorMessage = NullStr]

markEventDone(st, id) ==
  [st EXCEPT ![id].status = "DONE",
             ![id].nextTryAt = Null,
             ![id].lastErrorMessage = NullStr]

\* Faulty variant: IGNORED is written without the reason
markEventIgnoredWithoutReason(st, id, reason) ==
  [st EXCEPT ![id].status = "IGNORED",
             ![id].nextTryAt = Null]

markEventIgnored(st, id, reason) ==
  [st EXCEPT ![id].status = "IGNORED",
             ![id].nextTryAt = Null,
             ![id].lastErrorMessage = reason]

\* Faulty variant: a retryable failure starts the attempt count afresh
markEventRetryableFailureResetting(st, id, message, nextTryAt) ==
  [st EXCEPT ![id].status = "FAILED_RETRYABLE",
             ![id].lastErrorMessage = message,
             ![id].nextTryAt = nextTryAt,
             ![id].attemptCount = 0]

markEventRetryableFailure(st, id, message, nextTryAt) ==
  [st EXCEPT ![id].status = "FAILED_RETRYABLE",
             ![id].lastErrorMessage = message,
             ![id].nextTryAt = nextTryAt]

markEventTerminalFailure(st, id, message) ==
  [st EXCEPT ![id].status = "FAILED_TERMINAL",
             ![id].nextTryAt = Null,
             ![id].lastErrorMessage = message]

\* ----------------------------------------------------------- retry policy
\* Errors: name is the class, status the HTTP status of an HTTPFetchError.
HTTPFetchError(status) ==
  [name |-> "HTTPFetchError", status |-> status,
   message |-> "HTTP " \o ToString(status)]
TerminalError(message) ==
  [name |-> "TerminalError", status |-> 0, message |-> message]
PlainError(message) == [name |-> "Error", status |-> 0, message |-> message]

Statuses == {0, 302, 400, 403, 408, 429, 499, 500, 503}
RawErrors == {HTTPFetchError(s) : s \in Statuses} \cup
             {PlainError("fetch failed")}
\* what a reply or a lookup of the handlers fails with in the pipeline runs
HandlerFailures == {HTTPFetchError(403), HTTPFetchError(500)}

\* server: the error a handler lets escape for a failed reply
throwAsTerminalIfNeeded(err) ==
  IF err.name = "HTTPFetchError"
       /\ err.status >= 400 /\ err.status < 500 /\ err.status # 408
    THEN TerminalError("Non-retryable LINE reply error (status="
                         \o ToString(err.status) \o ")")
    ELSE err

\* Faulty variant: 429 instead of 408 counts as retryable
isRetryableErrorWith429(err) ==
  IF err.name = "TerminalError" THEN FALSE
  ELSE IF err.name = "HTTPFetchError"
    THEN err.status = 0 \/ err.status = 429 \/ err.status >= 500
  ELSE TRUE

isRetryableError(err) ==
  IF err.name = "TerminalError" THEN FALSE
  ELSE IF err.name = "HTTPFetchError"
    THEN err.status = 0 \/ err.status = 408 \/ err.status >= 500
  ELSE TRUE

\* Faulty variant: the exponent is the attempt number
delayMsOffByOne(attempt) == Min(MaxDelayMs, BaseDelayMs * 2 ^ attempt)

delayMs(attempt) == Min(MaxDelayMs, BaseDelayMs * 2 ^ (attempt - 1))

calcNextTryAt(attempt, t) == t + delayMs(attempt)

toErrorMessage(err) == err.message

\* Faulty variant: the catch block records the event as handled
OnErrorMarkingDone(currentAttempt, err, t) ==
  [type |-> "done", message |-> toErrorMessage(err), nextTryAt |-> Null]

\* runProcessorOnce, the catch block: what the pass decides to write when
\* dispatch raised err on attempt currentAttempt at time t.
OnError(currentAttempt, err, t) ==
  IF currentAttempt >= MAX_ATTEMPTS \/ ~isRetryableError(err)
    THEN [type |-> "terminal", message |-> toErrorMessage(err),
          nextTryAt |-> Null]
    ELSE [type |-> "retryable", message |-> toErrorMessage(err),
          nextTryAt |-> calcNextTryAt(currentAttempt, t)]

\* --------------------------------------------------------------- dispatch
\* Faulty variant: no string counts as missing
AbsentNever(s) == FALSE

Absent(s) == s = NullStr \/ s = ""   \* !value of a nullable string

hasUnsendEventForMessageId(st, messageId) ==
  \E id \in Rows(st) :
    st[id].eventType = "unsend" /\ st[id].messageId = messageId

MessageRows(st, messageId) ==
  {id \in Rows(st) :
     st[id].eventType = "message" /\ st[id].messageId = messageId}

\* the stored text of the message is cleared
maskMessageTextByMessageId(st, messageId) ==
  IF MessageRows(st, messageId) = {}
    THEN [st |-> st, result |-> "messageNotFound"]
  ELSE IF \E id \in MessageRows(st, messageId) : st[id].messageText # NullStr
    THEN [st |-> [id \in RowIds |->
                    IF id \in MessageRows(st, messageId)
                      THEN [st[id] EXCEPT !.messageText = NullStr]
                      ELSE st[id]],
          result |-> "masked"]
  ELSE [st |-> st, result |-> "alreadyMasked"]

Returned(type, reason, st, handler) ==
  [type |-> type, reason |-> reason, err |-> PlainError(""), st |-> st,
   handler |-> handler]
Raised(err, st, handler) ==
  [type |-> "raised", reason |-> "", err |-> err, st |-> st,
   handler |-> handler]

\* server: handleUnsendEvent, then what processEvent returns after it; the
\* handler rethrows what the masking query fails with
MaskFailure == PlainError("Can't reach database server")
NotFoundYet(messageId) ==
  PlainError("Unsend target message not found yet: " \o messageId)

\* Faulty variant: a missing target message counts as nothing to mask
handleUnsendEventIgnoringMissing(st, messageId, type, reason) ==
  LET m == maskMessageTextByMessageId(st, messageId)
  IN {Raised(MaskFailure, st, "unsend"), Returned(type, reason, m.st, "unsend")}

handleUnsendEvent(st, messageId, type, reason) ==
  LET m == maskMessageTextByMessageId(st, messageId)
  IN {Raised(MaskFailure, st, "unsend")} \cup
     IF m.result = "messageNotFound"
       THEN {Raised(NotFoundYet(messageId), st, "unsend")}
       ELSE {Returned(type, reason, m.st, "unsend")}

\* server: handleTextEvent and handleLanguageRegistration return, or let the
\* error of a failed reply or lookup escape
ReplyingHandler(st, handler) ==
  {Returned("done", "", st, handler)} \cup
  {Raised(throwAsTerminalIfNeeded(e), st, handler) : e \in HandlerFailures}

\* Faulty variant: a mention is registered without looking at the group id
processEventWithoutGroupCheck(event, st) ==
  IF event.eventType = "message" THEN
    IF Absent(event.messageId)
      THEN {Returned("ignored", "No message ID", st, "none")}
    ELSE IF hasUnsendEventForMessageId(st, event.messageId)
      THEN handleUnsendEvent(st, event.messageId, "ignored",
                             "Message already unsent: " \o event.messageId)
    ELSE IF Absent(event.messageText)
      THEN {Returned("ignored", "No message text", st, "none")}
    ELSE IF Absent(event.replyToken)
      THEN {Returned("ignored", "No reply token", st, "none")}
    ELSE IF Absent(event.quoteToken)
      THEN {Returned("ignored", "No quote token", st, "none")}
    ELSE IF event.isMentioned
      THEN ReplyingHandler(st, "languageRegistration")
    ELSE ReplyingHandler(st, "text")
  ELSE IF event.eventType = "unsend" THEN
    IF Absent(event.messageId)
      THEN {Returned("ignored", "No message ID", st, "none")}
      ELSE handleUnsendEvent(st, event.messageId, "done", "")
  ELSE {Returned("ignored", "Unsupported event type: " \o event.eventType,
                 st, "none")}

\* Faulty variant: a mention in a group goes to the plain-message handler too
processEventIgnoringMention(event, st) ==
  IF event.eventType = "message" THEN
    IF Absent(event.messageId)
      THEN {Returned("ignored", "No message ID", st, "none")}
    ELSE IF hasUnsendEventForMessageId(st, event.messageId)
      THEN handleUnsendEvent(st, event.messageId, "ignored",
                             "Message already unsent: " \o event.messageId)
    ELSE IF Absent(event.messageText)
      THEN {Returned("ignored", "No message text", st, "none")}
    ELSE IF Absent(event.replyToken)
      THEN {Returned("ignored", "No reply token", st, "none")}
    ELSE IF Absent(event.quoteToken)
      THEN {Returned("ignored", "No quote token", st, "none")}
    ELSE IF event.isMentioned /\ Absent(event.sourceGroupId)
      THEN {Returned("ignored", "No source group ID for mentioned message",
                     st, "none")}
    ELSE ReplyingHandler(st, "text")
  ELSE IF event.eventType = "unsend" THEN
    IF Absent(event.messageId)
      THEN {Returned("ignored", "No message ID", st, "none")}
      ELSE handleUnsendEvent(st, event.messageId, "done", "")
  ELSE {Returned("ignored", "Unsupported event type: " \o event.eventType,
                 st, "none")}

\* Faulty variant: a message is replied to without looking for its unsend
processEventWithoutUnsendLookup(event, st) ==
  IF event.eventType = "message" THEN
    IF Absent(event.messageId)
      THEN {Returned("ignored", "No message ID", st, "none")}
    ELSE IF Absent(event.messageText)
      THEN {Returned("ignored", "No message text", st, "none")}
    ELSE IF Absent(event.replyToken)
      THEN {Returned("ignored", "No reply token", st, "none")}
    ELSE IF Absent(event.quoteToken)
      THEN {Returned("ignored", "No quote token", st, "none")}
    ELSE IF event.isMentioned THEN
      IF Absent(event.sourceGroupId)
        THEN {Returned("ignored", "No source group ID for mentioned message",
                       st, "none")}
        ELSE ReplyingHandler(st, "languageRegistration")
    ELSE ReplyingHandler(st, "text")
  ELSE IF event.eventType = "unsend" THEN
    IF Absent(event.messageId)
      THEN {Returned("ignored", "No message ID", st, "none")}
      ELSE handleUnsendEvent(st, event.messageId, "done", "")
  ELSE {Returned("ignored", "Unsupported event type: " \o event.eventType,
                 st, "none")}

\* processEvent: the outcomes of dispatching the fetched event over store st
processEvent(event, st) ==
  IF event.eventType = "message" THEN
    IF Absent(event.messageId)
      THEN {Returned("ignored", "No message ID", st, "none")}
    ELSE IF hasUnsendEventForMessageId(st, event.messageId)
      THEN handleUnsendEvent(st, event.messageId, "ignored",
                             "Message already unsent: " \o event.messageId)
    ELSE IF Absent(event.messageText)
      THEN {Returned("ignored", "No message text", st, "none")}
    ELSE IF Absent(event.replyToken)
      THEN {Returned("ignored", "No reply token", st, "none")}
    ELSE IF Absent(event.quoteToken)
      THEN {Returned("ignored", "No quote token", st, "none")}
    ELSE IF event.isMentioned THEN
      IF Absent(event.sourceGroupId)
        THEN {Returned("ignored", "No source group ID for mentioned message",
                       st, "none")}
        ELSE ReplyingHandler(st, "languageRegistration")
    ELSE ReplyingHandler(st, "text")
  ELSE IF event.eventType = "unsend" THEN
    IF Absent(event.messageId)
      THEN {Returned("ignored", "No message ID", st, "none")}
      ELSE handleUnsendEvent(st, event.messageId, "done", "")
  ELSE {Returned("ignored", "Unsupported event type: " \o event.eventType,
                 st, "none")}

\* ------------------------------------------------------------------ Init
NoResult == [type |-> "none", message |-> "", nextTryAt |-> Null]
NoHold == [id |-> 0, at |-> 0, count |-> 0, raised |-> FALSE,
           err |-> PlainError(""), raisedAt |-> 0, lost |-> {},
           handler |-> "none"]
NoHist == [claims |-> 0, calls |-> 0, dupBusy |-> FALSE, orphanedAt |-> 0]
NoProbe == [op |-> "none"]
\* the server process after start-up: the interval timer is armed, the HTTP
\* server listens, the store connection is open, no request, no wait
NoWait == [state |-> "none", calledAt |-> 0, timeoutMs |-> 0,
           deadline |-> Null, inFlight |-> FALSE, resolvedAt |-> Null]
NoReq == [pc |-> "none", rows |-> <<>>, inserted |-> FALSE, status |-> 0,
          triggered |-> FALSE]
InitSrv ==
  [isShuttingDown |-> FALSE, timer |-> TRUE, listening |-> TRUE,
   conn |-> "open", exitPending |-> FALSE, exited |-> FALSE, sd |-> "none",
   forceAt |-> Null, signals |-> 0, signal |-> 0, wait |-> NoWait,
   req |-> NoReq, timerAt |-> TRIGGER_INTERVAL_MS, fired |-> 0,
   cleanupInFlight |-> FALSE, cleanupRuns |-> <<>>,
   cleanupImmediate |-> TRUE, cleanupTimer |-> TRUE,
   cleanupAt |-> CLEANUP_INTERVAL_MS, cleanups |-> 0, cleanupSkipped |-> 0]
EmptyStore == [id \in RowIds |-> NoRow]

\* The store when the workers start holds the text event: as the endpoint
\* inserted it (a = 0), or as earlier passes left it after `a` attempts that
\* failed with a retryable error, due again.
Left(a) ==
  LET st == insertNewEventsBatch(EmptyStore, 1, <<evText>>, 0).st
  IN IF a = 0 THEN st
     ELSE [st EXCEPT ![1].status = "FAILED_RETRYABLE",
                     ![1].attemptCount = a,
                     ![1].lastErrorMessage = toErrorMessage(HTTPFetchError(500))]
InitAttempts == {0, 3, 4}

Init ==
  /\ clock = 0
  /\ \E a \in InitAttempts :
       /\ store = Left(a)
       /\ hist = [id \in RowIds |->
                    IF id = 1 THEN [NoHist EXCEPT !.claims = a, !.calls = a]
                    ELSE NoHist]
  /\ nextId = 2
  /\ activeRun = [w \in Workers |-> FALSE]
  /\ pc = [w \in Workers |-> "idle"]
  /\ now = [w \in Workers |-> 0]
  /\ events = [w \in Workers |-> <<>>]
  /\ idx = [w \in Workers |-> 0]
  /\ result = [w \in Workers |-> NoResult]
  /\ held = [w \in Workers |-> NoHold]
  /\ crashes = 0
  /\ passes = 0
  /\ probe = NoProbe
  /\ srv = InitSrv

\* --------------------------------------------------------------- actions
\* Time passes, to the next instant at which a stored nextTryAt falls due.
Instants ==
  {store[id].nextTryAt : id \in {i \in Rows(store) : store[i].nextTryAt > clock}}

Tick ==
  /\ \E t \in Instants : t <= MaxClock /\ clock' = t
  /\ UNCHANGED <<store, nextId, activeRun, pc, now, events, idx, result, held,
                 hist, crashes, passes, probe, srv>>

\* POST /webhook: the rows of the request are persisted (then 200 is sent)
Webhook(rows) ==
  LET r == insertNewEventsBatch(store, nextId, rows, clock)
      hit == {id \in Rows(store) :
                /\ \E i \in 1..Len(rows) :
                     rows[i].webhookEventId = store[id].webhookEventId
                /\ store[id].status # "RECEIVED"}
  IN /\ r.nid <= MaxRows + 1
     /\ store' = r.st
     /\ nextId' = r.nid
     /\ hist' = [id \in RowIds |->
                   IF id \in hit THEN [hist[id] EXCEPT !.dupBusy = TRUE]
                   ELSE hist[id]]
     /\ UNCHANGED <<clock, activeRun, pc, now, events, idx, result, held,
                    crashes, passes, probe, srv>>

\* Faulty variant: runProcessorOnce does not look at activeRun
PassInFlightNever(w) == FALSE

\* if (activeRun): a pass of this process is in flight
PassInFlight(w) == activeRun[w]

\* runProcessorOnce: no pass in flight, a pass starts and captures now (what
\* the caller does with the returned promise is the caller's step)
StartPass(w) ==
  /\ ~PassInFlight(w)
  /\ activeRun' = [activeRun EXCEPT ![w] = TRUE]
  /\ now' = [now EXCEPT ![w] = clock]
  /\ pc' = [pc EXCEPT ![w] = "fetch"]
  /\ UNCHANGED <<clock, store, nextId, events, idx, result, hist, held,
                 crashes, probe>>

\* the passes started are counted, and no more than MaxPasses are started
Counted == passes < MaxPasses /\ passes' = passes + 1

\* Faulty variant: no finally block, activeRun stays set when the pass ends
LoopAtKeepingActiveRun(w, evs, i) ==
  IF i <= Len(evs)
    THEN /\ events' = [events EXCEPT ![w] = evs]
         /\ idx' = [idx EXCEPT ![w] = i]
         /\ pc' = [pc EXCEPT ![w] = "claim"]
         /\ UNCHANGED <<activeRun, now>>
    ELSE /\ events' = [events EXCEPT ![w] = <<>>]
         /\ idx' = [idx EXCEPT ![w] = 0]
         /\ pc' = [pc EXCEPT ![w] = "idle"]
         /\ UNCHANGED <<activeRun, now>>

\* Faulty variant: the loop passes over the event at position i
LoopAtSkipping(w, evs, i) ==
  IF i + 1 <= Len(evs)
    THEN /\ events' = [events EXCEPT ![w] = evs]
         /\ idx' = [idx EXCEPT ![w] = i + 1]
         /\ pc' = [pc EXCEPT ![w] = "claim"]
         /\ UNCHANGED <<activeRun, now>>
    ELSE /\ events' = [events EXCEPT ![w] = <<>>]
         /\ idx' = [idx EXCEPT ![w] = 0]
         /\ pc' = [pc EXCEPT ![w] = "idle"]
         /\ activeRun' = [activeRun EXCEPT ![w] = FALSE]
         /\ now' = [now EXCEPT ![w] = 0]

\* The for-loop of worker w stands at position i of the fetched rows evs: it
\* goes on with the claim of that row, or the pass is over and the finally
\* block clears activeRun.
LoopAt(w, evs, i) ==
  IF i <= Len(evs)
    THEN /\ events' = [events EXCEPT ![w] = evs]
         /\ idx' = [idx EXCEPT ![w] = i]
         /\ pc' = [pc EXCEPT ![w] = "claim"]
         /\ UNCHANGED <<activeRun, now>>
    ELSE /\ events' = [events EXCEPT ![w] = <<>>]
         /\ idx' = [idx EXCEPT ![w] = 0]
         /\ pc' = [pc EXCEPT ![w] = "idle"]
         /\ activeRun' = [activeRun EXCEPT ![w] = FALSE]
         /\ now' = [now EXCEPT ![w] = 0]

\* const events = await fetchDueEvents(BATCH_SIZE, now)
FetchDue(w) ==
  /\ pc[w] = "fetch"
  /\ \E s \in fetchDueEvents(store, BATCH_SIZE, now[w]) : LoopAt(w, s, 1)
  /\ UNCHANGED <<clock, store, nextId, result, hist, held, crashes, passes,
                 probe, srv>>

\* const claimed = await claimEventForProcessing(event.id, now);
\* if (!claimed) continue
Claim(w) ==
  /\ pc[w] = "claim"
  /\ LET id == events[w][idx[w]].id
         r == claimEventForProcessing(store, id, now[w])
     IN IF r.claimed
          THEN /\ store' = r.st
               /\ pc' = [pc EXCEPT ![w] = "dispatch"]
               /\ held' = [held EXCEPT ![w].id = id, ![w].at = clock,
                                       ![w].count = r.st[id].attemptCount]
               /\ hist' = [hist EXCEPT ![id].claims = @ + 1]
               /\ UNCHANGED <<activeRun, now, events, idx>>
          ELSE /\ LoopAt(w, events[w], idx[w] + 1)
               /\ held' = [held EXCEPT ![w].lost =
                                        IF idx[w] < Len(events[w])
                                          THEN @ \cup {id} ELSE {}]
               /\ UNCHANGED <<store, hist>>
  /\ UNCHANGED <<clock, nextId, result, crashes, passes, probe, srv>>

\* processEvent for the claimed event, and the catch block when it raised
Dispatch(w) ==
  /\ pc[w] = "dispatch"
  /\ LET event == events[w][idx[w]]
         currentAttempt == event.attemptCount + 1
     IN \E o \in processEvent(event, store) :
          /\ store' = o.st
          /\ result' = [result EXCEPT ![w] =
                          IF o.type = "raised"
                            THEN OnError(currentAttempt, o.err, clock)
                            ELSE [type |-> o.type, message |-> o.reason,
                                  nextTryAt |-> Null]]
          /\ held' = [held EXCEPT ![w].raised = (o.type = "raised"),
                                  ![w].err = o.err,
                                  ![w].raisedAt = clock,
                                  ![w].handler = o.handler]
          /\ hist' = [hist EXCEPT ![event.id].calls =
                                    IF o.handler = "none" THEN @ ELSE @ + 1]
  /\ pc' = [pc EXCEPT ![w] = "mark"]
  /\ UNCHANGED <<clock, nextId, activeRun, now, events, idx, crashes, passes,
                 probe, srv>>

\* markEventIgnored / markEventDone / markEventTerminalFailure /
\* markEventRetryableFailure, then the loop moves on
WriteBack(w) ==
  /\ pc[w] = "mark"
  /\ LET id == events[w][idx[w]].id
         r == result[w]
     IN store' =
          CASE r.type = "ignored" -> markEventIgnored(store, id, r.message)
            [] r.type = "done" -> markEventDone(store, id)
            [] r.type = "terminal" ->
                 markEventTerminalFailure(store, id, r.message)
            [] OTHER ->
                 markEventRetryableFailure(store, id, r.message, r.nextTryAt)
  /\ LoopAt(w, events[w], idx[w] + 1)
  /\ result' = [result EXCEPT ![w] = NoResult]
  /\ held' = [held EXCEPT ![w] =
                 IF idx[w] < Len(events[w])
                   THEN [NoHold EXCEPT !.lost = held[w].lost] ELSE NoHold]
  /\ UNCHANGED <<clock, nextId, hist, crashes, passes, probe, srv>>

\* the worker's process dies while it handles a claimed event, and is started
\* again
Crash(w) ==
  /\ pc[w] \in {"dispatch", "mark"}
  /\ crashes < MaxCrashes
  /\ crashes' = crashes + 1
  /\ LoopAt(w, <<>>, 1)
  /\ result' = [result EXCEPT ![w] = NoResult]
  /\ held' = [held EXCEPT ![w] = NoHold]
  /\ hist' = [id \in RowIds |->
                IF id = held[w].id
                  THEN [hist[id] EXCEPT !.orphanedAt = held[w].count]
                ELSE hist[id]]
  /\ UNCHANGED <<clock, store, nextId, passes, probe, srv>>

Next ==
  \/ Tick
  \/ \E rows \in Batches : Webhook(rows)
  \/ \E w \in Workers : StartPass(w) /\ Counted /\ UNCHANGED srv
  \/ \E w \in Workers : FetchDue(w)
  \/ \E w \in Workers : Claim(w)
  \/ \E w \in Workers : Dispatch(w)
  \/ \E w \in Workers : WriteBack(w)
  \/ \E w \in Workers : Crash(w)

Spec == Init /\ [][Next]_vars

TypeOK ==
  /\ clock \in 0..MaxClock
  /\ nextId \in 1..MaxRows + 1
  /\ \A w \in Workers : pc[w] \in {"idle", "fetch", "claim", "dispatch", "mark"}
  /\ \A w \in Workers : activeRun[w] = (pc[w] # "idle")

\* ------------------------------------------------------ the server process
\* One process, with what the pipeline runs abstract away: the callers of
\* runProcessorOnce (the interval timer, the webhook endpoint), store calls that
\* fail, waitForProcessorIdle, and the signal handlers.
Server == "w1"

MaxSignals == 2       \* signals delivered in one behaviour
MaxFirings == 2       \* callbacks of the interval timer in one behaviour
MaxCleanups == 2      \* callbacks of the cleanup timer in one behaviour

WAIT_IDLE_MS == 5000
FORCE_EXIT_MS == 10000
WaitTimeouts == {0, WAIT_IDLE_MS}

\* a store call that fails for good (withDbRetry gave up or does not retry it)
StoreFailure == PlainError("Can't reach database server")

Alive == ~srv.exited

\* promise reactions run before any timer or I/O callback: the promise of a
\* pass that ended has resolved the wait that was pending on it
Settled == ~(srv.wait.state = "pending" /\ ~activeRun[Server])

PassVars == <<clock, store, nextId, activeRun, pc, now, events, idx, result,
              hist, held, crashes, passes, probe>>

\* runProcessorOnce called by the process, which is left with s: the pass in
\* flight is returned (activeRun), or a pass starts and is returned; signal is
\* the number of the pass whose promise the call returned
runProcessorOnce(w, s) ==
  IF PassInFlight(w)
    THEN /\ srv' = [s EXCEPT !.signal = passes]
         /\ UNCHANGED PassVars
    ELSE /\ StartPass(w) /\ Counted
         /\ srv' = [s EXCEPT !.signal = passes + 1]

\* Faulty variant: the trigger does not look at the shutdown flag
triggerProcessorDespiteShutdown(w, s) == runProcessorOnce(w, s)

\* if (isShuttingDown) return; void runProcessorOnce(...).catch(...)
triggerProcessor(w, s) ==
  IF s.isShuttingDown
    THEN srv' = s /\ UNCHANGED PassVars
    ELSE runProcessorOnce(w, s)

\* setInterval(triggerProcessor, 3_000)
TimerFires ==
  /\ Alive /\ Settled
  /\ srv.timer
  /\ triggerProcessor(Server, srv)

\* --- POST /webhook
\* Faulty variant: the endpoint acknowledges whatever the insert did
webhookStatusAlwaysOk(inserted) == 200

\* res.status(200) after the insert, res.status(500) in the catch block
webhookStatus(inserted) == IF inserted THEN 200 ELSE 500

\* await insertNewEventsBatch(rows): the createMany statement commits
WebhookInsert(rows) ==
  LET r == insertNewEventsBatch(store, nextId, rows, clock)
  IN /\ Alive /\ Settled
     /\ srv.listening /\ srv.req.pc = "none"
     /\ r.nid <= MaxRows + 1
     /\ store' = r.st
     /\ nextId' = r.nid
     /\ srv' = [srv EXCEPT !.req = [pc |-> "settled", rows |-> rows,
                                    inserted |-> TRUE, status |-> 0,
                                    triggered |-> FALSE]]
     /\ UNCHANGED <<clock, activeRun, pc, now, events, idx, result, hist,
                    held, crashes, passes, probe>>

\* ... or the statement fails and nothing is stored
WebhookInsertFails(rows) ==
  /\ Alive /\ Settled
  /\ srv.listening /\ srv.req.pc = "none"
  /\ Len(rows) > 0
  /\ srv' = [srv EXCEPT !.req = [pc |-> "settled", rows |-> rows,
                                 inserted |-> FALSE, status |-> 0,
                                 triggered |-> FALSE]]
  /\ UNCHANGED PassVars

\* res.status(200).end(); setImmediate(triggerProcessor)  /  res.status(500).end()
WebhookRespond ==
  /\ Alive /\ Settled
  /\ srv.req.pc = "settled"
  /\ srv' = [srv EXCEPT !.req.status = webhookStatus(srv.req.inserted),
                        !.req.pc = IF srv.req.inserted THEN "immediate"
                                   ELSE "none"]
  /\ UNCHANGED PassVars

\* the setImmediate callback: triggerProcessor
WebhookImmediate ==
  /\ Alive /\ Settled
  /\ srv.req.pc = "immediate"
  /\ triggerProcessor(Server, [srv EXCEPT !.req.pc = "none",
                                          !.req.triggered = TRUE])

\* --- store calls of the pass that fail
\* fetchDueEvents rejects: the async function of the pass rejects, the finally
\* block clears activeRun
FetchFails(w) ==
  /\ Alive /\ Settled
  /\ pc[w] = "fetch"
  /\ LoopAt(w, <<>>, 1)
  /\ UNCHANGED <<clock, store, nextId, result, hist, held, crashes, passes,
                 probe, srv>>

\* claimEventForProcessing rejects: it is awaited outside the try block, so the
\* pass rejects
ClaimFails(w) ==
  /\ Alive /\ Settled
  /\ pc[w] = "claim"
  /\ LoopAt(w, <<>>, 1)
  /\ held' = [held EXCEPT ![w] = NoHold]
  /\ UNCHANGED <<clock, store, nextId, result, hist, crashes, passes, probe,
                 srv>>

\* hasUnsendEventForMessageId rejects inside processEvent: the catch block
LookupFails(w) ==
  /\ Alive /\ Settled
  /\ pc[w] = "dispatch"
  /\ LET event == events[w][idx[w]]
         currentAttempt == event.attemptCount + 1
     IN /\ event.eventType = "message" /\ ~Absent(event.messageId)
        /\ result' = [result EXCEPT ![w] =
                        OnError(currentAttempt, StoreFailure, clock)]
        /\ held' = [held EXCEPT ![w].raised = TRUE,
                                ![w].err = StoreFailure,
                                ![w].raisedAt = clock]
  /\ pc' = [pc EXCEPT ![w] = "mark"]
  /\ UNCHANGED <<clock, store, nextId, activeRun, now, events, idx, hist,
                 crashes, passes, probe, srv>>

\* markEventDone / markEventIgnored rejects inside the try block: the catch
\* block classifies the store error like a handler error
MarkOutcomeFails(w) ==
  /\ Alive /\ Settled
  /\ pc[w] = "mark"
  /\ result[w].type \in {"done", "ignored"}
  /\ LET currentAttempt == events[w][idx[w]].attemptCount + 1
     IN result' = [result EXCEPT ![w] =
                     OnError(currentAttempt, StoreFailure, clock)]
  /\ held' = [held EXCEPT ![w].raised = TRUE,
                          ![w].err = StoreFailure,
                          ![w].raisedAt = clock]
  /\ UNCHANGED <<clock, store, nextId, activeRun, pc, now, events, idx, hist,
                 crashes, passes, probe, srv>>

\* markEventTerminalFailure / markEventRetryableFailure rejects inside the
\* catch block: the pass rejects
MarkFailureFails(w) ==
  /\ Alive /\ Settled
  /\ pc[w] = "mark"
  /\ result[w].type \in {"terminal", "retryable"}
  /\ LoopAt(w, <<>>, 1)
  /\ result' = [result EXCEPT ![w] = NoResult]
  /\ held' = [held EXCEPT ![w] = NoHold]
  /\ UNCHANGED <<clock, store, nextId, hist, crashes, passes, probe, srv>>

\* --- waitForProcessorIdle
\* Faulty variant: the wait is on the pass alone, no timer races it
waitForProcessorIdleWithoutTimer(inFlight, timeoutMs, t) ==
  IF ~inFlight
    THEN [state |-> "true", calledAt |-> t, timeoutMs |-> timeoutMs,
          deadline |-> Null, inFlight |-> FALSE, resolvedAt |-> t]
    ELSE [state |-> "pending", calledAt |-> t, timeoutMs |-> timeoutMs,
          deadline |-> Null, inFlight |-> TRUE, resolvedAt |-> Null]

\* the call at time t: true at once when no pass is in flight, else the race
\* of the pass's promise and sleep(timeoutMs)
waitForProcessorIdle(inFlight, timeoutMs, t) ==
  IF ~inFlight
    THEN [state |-> "true", calledAt |-> t, timeoutMs |-> timeoutMs,
          deadline |-> Null, inFlight |-> FALSE, resolvedAt |-> t]
    ELSE [state |-> "pending", calledAt |-> t, timeoutMs |-> timeoutMs,
          deadline |-> t + timeoutMs, inFlight |-> TRUE, resolvedAt |-> Null]

\* a caller other than shutdown (the function is exported)
CallIdleWait(timeoutMs) ==
  /\ Alive /\ Settled
  /\ srv.sd = "none" /\ srv.wait.state = "none"
  /\ srv' = [srv EXCEPT !.wait =
               waitForProcessorIdle(activeRun[Server], timeoutMs, clock)]
  /\ UNCHANGED PassVars

\* activeRun.then(() => true, () => true) wins the race
WaitDone ==
  /\ Alive
  /\ srv.wait.state = "pending" /\ ~activeRun[Server]
  /\ srv' = [srv EXCEPT !.wait.state = "true", !.wait.resolvedAt = clock]
  /\ UNCHANGED PassVars

TimerDue(deadline) == deadline # Null /\ deadline <= clock

\* sleep(timeoutMs).then(() => false) wins the race
WaitTimeout ==
  /\ Alive /\ Settled
  /\ srv.wait.state = "pending" /\ TimerDue(srv.wait.deadline)
  /\ srv' = [srv EXCEPT !.wait.state = "false", !.wait.resolvedAt = clock]
  /\ UNCHANGED PassVars

\* --- signals
\* process.on('SIGTERM') of the store client module: await
\* prisma.$disconnect(); process.exit(0).  It is registered for SIGTERM only.
ClientOnSignal(s, sig) ==
  IF sig = "SIGTERM"
    THEN [s EXCEPT !.conn = IF @ = "open" THEN "closing" ELSE @,
                   !.exitPending = TRUE]
    ELSE s

\* shutdown(signal) up to its first await: the flag, clearInterval, the
\* force-exit timer, server.close()
ShutdownBegins(s, t) ==
  IF s.isShuttingDown THEN s
  ELSE [s EXCEPT !.isShuttingDown = TRUE, !.timer = FALSE,
                 !.timerAt = Null, !.cleanupTimer = FALSE,
                 !.forceAt = t + FORCE_EXIT_MS, !.listening = FALSE,
                 !.sd = "closing"]

\* a signal arrives: the listeners run in the order they were registered
Signal(sig) ==
  /\ Alive /\ Settled
  /\ srv.signals < MaxSignals
  /\ srv' = [ShutdownBegins(ClientOnSignal(srv, sig), clock)
               EXCEPT !.signals = @ + 1]
  /\ UNCHANGED PassVars

\* the HTTP server has closed (no request is open any more):
\* waitForProcessorIdle(5_000) is called
ShutdownWaits ==
  /\ Alive /\ Settled
  /\ srv.sd = "closing" /\ srv.req.pc \in {"none", "immediate"}
  /\ srv.wait.state # "pending"
  /\ srv' = [srv EXCEPT !.sd = "waiting",
                        !.wait = waitForProcessorIdle(activeRun[Server],
                                                      WAIT_IDLE_MS, clock)]
  /\ UNCHANGED PassVars

\* the wait has returned: prisma.$disconnect() is called
ShutdownDisconnects ==
  /\ Alive /\ Settled
  /\ srv.sd = "waiting" /\ srv.wait.state \in {"true", "false"}
  /\ srv' = [srv EXCEPT !.sd = "disconnecting",
                        !.conn = IF @ = "open" THEN "closing" ELSE @]
  /\ UNCHANGED PassVars

\* the process is gone, and the pass it was running with it
Exit(s) ==
  /\ srv' = [s EXCEPT !.exited = TRUE, !.conn = "closed", !.timer = FALSE,
                      !.timerAt = Null, !.listening = FALSE]
  /\ LoopAt(Server, <<>>, 1)
  /\ result' = [result EXCEPT ![Server] = NoResult]
  /\ held' = [held EXCEPT ![Server] = NoHold]
  /\ UNCHANGED <<clock, store, nextId, hist, crashes, passes, probe>>

\* $disconnect has finished: shutdown clears the force-exit timer and returns,
\* the client module's listener calls process.exit(0)
Disconnected ==
  /\ Alive /\ Settled
  /\ srv.conn = "closing"
  /\ LET s == [srv EXCEPT !.conn = "closed",
                          !.sd = IF @ = "disconnecting" THEN "done" ELSE @,
                          !.forceAt = IF srv.sd = "disconnecting"
                                        THEN Null ELSE @]
     IN IF srv.exitPending
          THEN Exit(s)
          ELSE srv' = s /\ UNCHANGED PassVars

\* the force-exit timer fires: process.exit(1)
ForceExit ==
  /\ Alive /\ Settled
  /\ TimerDue(srv.forceAt)
  /\ Exit(srv)

\* --- time
\* Time passes to the next instant at which something falls due; no timer of
\* the process is skipped.
ServerTimers ==
  {d \in {srv.forceAt} \cup
         (IF srv.wait.state = "pending" THEN {srv.wait.deadline} ELSE {}) :
     d # Null}

TickServer ==
  /\ Alive /\ Settled
  /\ \A d \in ServerTimers : d > clock
  /\ \E t \in Instants \cup ServerTimers :
       /\ t > clock /\ t <= MaxClock
       /\ \A d \in ServerTimers : t <= d
       /\ clock' = t
  /\ UNCHANGED <<store, nextId, activeRun, pc, now, events, idx, result, held,
                 hist, crashes, passes, probe, srv>>

\* the endpoint, the triggers and the pass with store calls that fail
NextServer ==
  \/ Tick
  \/ TimerFires
  \/ \E rows \in Batches : WebhookInsert(rows)
  \/ \E rows \in Batches : WebhookInsertFails(rows)
  \/ WebhookRespond
  \/ WebhookImmediate
  \/ FetchDue(Server)
  \/ Claim(Server)
  \/ Dispatch(Server)
  \/ WriteBack(Server)
  \/ FetchFails(Server)
  \/ ClaimFails(Server)
  \/ LookupFails(Server)
  \/ MarkOutcomeFails(Server)
  \/ MarkFailureFails(Server)

SpecServer == Init /\ [][NextServer]_vars

\* the triggers, the pass, the idle-wait and the signals
NextShutdown ==
  \/ TickServer
  \/ TimerFires
  \/ Alive /\ Settled /\ FetchDue(Server)
  \/ Alive /\ Settled /\ Claim(Server)
  \/ Alive /\ Settled /\ Dispatch(Server)
  \/ Alive /\ Settled /\ WriteBack(Server)
  \/ \E timeoutMs \in WaitTimeouts : CallIdleWait(timeoutMs)
  \/ WaitDone
  \/ WaitTimeout
  \/ \E sig \in {"SIGTERM", "SIGINT"} : Signal(sig)
  \/ ShutdownWaits
  \/ ShutdownDisconnects
  \/ Disconnected
  \/ ForceExit

SpecShutdown == Init /\ [][NextShutdown]_vars

\* ----------------------------------------------- the triggers of the pass
\* The interval timer with its period, the endpoint with its on-demand
\* trigger, store calls of the pass that fail, and the shutdown.
\* setInterval(triggerProcessor, 3_000): the callback runs when the period
\* has passed, and the timer is armed for the next period
IntervalFires ==
  /\ Alive /\ Settled
  /\ srv.timer /\ TimerDue(srv.timerAt)
  /\ srv.fired < MaxFirings
  /\ triggerProcessor(Server,
                      [srv EXCEPT !.timerAt = @ + TRIGGER_INTERVAL_MS,
                                  !.fired = @ + 1])

TriggerTimers ==
  ServerTimers \cup (IF srv.timer THEN {srv.timerAt} ELSE {})

\* time passes to the next instant at which a row or a timer falls due
TickTrigger ==
  /\ Alive /\ Settled
  /\ \A d \in TriggerTimers : d > clock
  /\ \E t \in Instants \cup TriggerTimers :
       /\ t > clock /\ t <= MaxClock
       /\ \A d \in TriggerTimers : t <= d
       /\ clock' = t
  /\ UNCHANGED <<store, nextId, activeRun, pc, now, events, idx, result, held,
                 hist, crashes, passes, probe, srv>>

TriggerBatches == {<<evUnsend>>}

\* the one request of the run
FirstRequest == Rows(store) = {1} /\ srv.req.status = 0

NextTrigger ==
  \/ TickTrigger
  \/ IntervalFires
  \/ \E rows \in TriggerBatches : FirstRequest /\ WebhookInsert(rows)
  \/ \E rows \in TriggerBatches : FirstRequest /\ WebhookInsertFails(rows)
  \/ WebhookRespond
  \/ WebhookImmediate
  \/ Alive /\ Settled /\ FetchDue(Server)
  \/ Alive /\ Settled /\ Claim(Server)
  \/ Alive /\ Settled /\ Dispatch(Server)
  \/ Alive /\ Settled /\ WriteBack(Server)
  \/ FetchFails(Server)
  \/ \E sig \in {"SIGTERM", "SIGINT"} : Signal(sig)

\* the process has just started: the endpoint stored the text event
InitTrigger == Init /\ store = Left(0)

SpecTrigger == InitTrigger /\ [][NextTrigger]_vars

\* ------------------------------------------------------------ the cleanup
\* cleanupOldLogsAndEvents and its trigger: once at start-up and every 24 h,
\* in the server process, beside the passes of the processor.
\* TLC's integers are 32 bits wide and 30 days are 2,592,000,000 ms: the
\* period is subtracted in two halves, and the clock of this specification
\* counts from an instant 16 days before the process starts, so that a row
\* received before that instant has a negative receivedAt.
HalfRetentionMs == (EVENT_RETENTION_DAYS \div 2) * DAY_MS
OtherHalfRetentionMs ==
  (EVENT_RETENTION_DAYS - EVENT_RETENTION_DAYS \div 2) * DAY_MS

\* new Date(now.getTime() - EVENT_RETENTION_DAYS * DAY_MS)
eventCutoff(n) == (n - HalfRetentionMs) - OtherHalfRetentionMs

\* Faulty variant: the deleteMany selects by age alone
cleanupOldEventsOfAnyStatus(st, n) ==
  [id \in RowIds |->
     IF st[id] # NoRow /\ st[id].receivedAt < eventCutoff(n)
       THEN NoRow ELSE st[id]]

\* prisma.lineWebhookEvent.deleteMany({ where: { receivedAt: { lt: eventCutoff },
\*   status: { in: ['DONE', 'IGNORED', 'FAILED_TERMINAL'] } } })
cleanupOldLogsAndEvents(st, n) ==
  [id \in RowIds |->
     IF /\ st[id] # NoRow
        /\ st[id].receivedAt < eventCutoff(n)
        /\ st[id].status \in {"DONE", "IGNORED", "FAILED_TERMINAL"}
       THEN NoRow ELSE st[id]]

\* if (isShuttingDown || cleanupInFlight) return;
\* cleanupInFlight = cleanupOldLogsAndEvents()...: the run captures `now`
\* and awaits its first deleteMany
triggerCleanup(s, t) ==
  IF s.isShuttingDown THEN s
  ELSE IF s.cleanupInFlight
    THEN [s EXCEPT !.cleanupSkipped = Min(@ + 1, MaxCleanups)]
    ELSE [s EXCEPT !.cleanupInFlight = TRUE,
                   !.cleanupRuns = Append(@, [pc |-> "apiLogs", now |-> t])]

Without(seq, i) == SubSeq(seq, 1, i - 1) \o SubSeq(seq, i + 1, Len(seq))

\* setImmediate(triggerCleanup) at start-up
CleanupImmediate ==
  /\ Alive
  /\ srv.cleanupImmediate
  /\ srv' = [triggerCleanup(srv, clock) EXCEPT !.cleanupImmediate = FALSE]
  /\ UNCHANGED PassVars

\* setInterval(triggerCleanup, CLEANUP_INTERVAL_MS)
CleanupIntervalFires ==
  /\ Alive
  /\ srv.cleanupTimer /\ clock = srv.cleanupAt
  /\ srv.cleanups < MaxCleanups
  /\ srv' = [triggerCleanup(srv, clock)
               EXCEPT !.cleanupAt = @ + CLEANUP_INTERVAL_MS,
                      !.cleanups = @ + 1]
  /\ UNCHANGED PassVars

\* a deleteMany on one of the two log tables has resolved
CleanupDeletesLogs(i) ==
  /\ Alive
  /\ i \in 1..Len(srv.cleanupRuns)
  /\ srv.cleanupRuns[i].pc \in {"apiLogs", "webhookLogs"}
  /\ srv' = [srv EXCEPT !.cleanupRuns[i].pc =
                          IF @ = "apiLogs" THEN "webhookLogs" ELSE "events"]
  /\ UNCHANGED PassVars

\* the deleteMany on the event table commits, the run returns and its
\* finally clears cleanupInFlight
CleanupDeletesEvents(i) ==
  /\ Alive
  /\ i \in 1..Len(srv.cleanupRuns)
  /\ srv.cleanupRuns[i].pc = "events"
  /\ store' = cleanupOldLogsAndEvents(store, srv.cleanupRuns[i].now)
  /\ srv' = [srv EXCEPT !.cleanupRuns = Without(@, i),
                        !.cleanupInFlight = FALSE]
  /\ UNCHANGED <<clock, nextId, activeRun, pc, now, events, idx, result,
                 hist, held, crashes, passes, probe>>

\* a deleteMany rejects: the run rejects, .catch logs, finally clears
CleanupFails(i) ==
  /\ Alive
  /\ i \in 1..Len(srv.cleanupRuns)
  /\ srv' = [srv EXCEPT !.cleanupRuns = Without(@, i),
                        !.cleanupInFlight = FALSE]
  /\ UNCHANGED PassVars

\* the process starts 31 days after the oldest row was received
CleanupStart == 16 * DAY_MS
Oldest == (eventCutoff(CleanupStart)) - DAY_MS
CleanupEnd == CleanupStart + MaxCleanups * CLEANUP_INTERVAL_MS

\* time passes to the next instant at which the cleanup timer falls due
TickCleanup ==
  /\ Alive
  /\ srv.cleanupTimer
  /\ clock < srv.cleanupAt /\ srv.cleanupAt <= CleanupEnd
  /\ clock' = srv.cleanupAt
  /\ UNCHANGED <<store, nextId, activeRun, pc, now, events, idx, result, held,
                 hist, crashes, passes, probe, srv>>

\* a row as the pipeline left it in status st, received at t
Aged(row, id, st, t) ==
  LET r == InsertRow(EmptyStore, id, row, t).st[id]
  IN CASE st = "RECEIVED" -> r
       [] st = "PROCESSING" ->
            [r EXCEPT !.status = st, !.attemptCount = 1,
                      !.nextTryAt = t + LEASE_TIME_MS]
       [] st = "FAILED_RETRYABLE" ->
            [r EXCEPT !.status = st, !.attemptCount = 1,
                      !.lastErrorMessage = toErrorMessage(HTTPFetchError(500)),
                      !.nextTryAt = t + BaseDelayMs]
       [] st = "DONE" ->
            [r EXCEPT !.status = st, !.attemptCount = 1, !.nextTryAt = Null]
       [] st = "IGNORED" ->
            [r EXCEPT !.status = st, !.attemptCount = 1, !.nextTryAt = Null,
                      !.lastErrorMessage = "No message text"]
       [] OTHER ->
            [r EXCEPT !.status = "FAILED_TERMINAL", !.attemptCount = 1,
                      !.nextTryAt = Null,
                      !.lastErrorMessage = toErrorMessage(HTTPFetchError(400))]

\* received 31 days, exactly 30 days and no time before the process started
ReceivedAts == {Oldest, Oldest + DAY_MS, CleanupStart}

InitCleanup ==
  /\ clock = CleanupStart
  /\ \E s1 \in ActiveStatuses \cup TerminalStatuses, s2 \in ActiveStatuses :
       \E t1 \in ReceivedAts :
         store = [id \in RowIds |->
                    IF id = 1 THEN Aged(evText, 1, s1, t1)
                    ELSE IF id = 2 THEN Aged(evJoin, 2, s2, Oldest)
                    ELSE NoRow]
  /\ hist = [id \in RowIds |-> NoHist]
  /\ nextId = 3
  /\ activeRun = [w \in Workers |-> FALSE]
  /\ pc = [w \in Workers |-> "idle"]
  /\ now = [w \in Workers |-> 0]
  /\ events = [w \in Workers |-> <<>>]
  /\ idx = [w \in Workers |-> 0]
  /\ result = [w \in Workers |-> NoResult]
  /\ held = [w \in Workers |-> NoHold]
  /\ crashes = 0
  /\ passes = 0
  /\ probe = NoProbe
  /\ srv = [InitSrv EXCEPT !.cleanupAt = CleanupStart + CLEANUP_INTERVAL_MS]

NextCleanup ==
  \/ TickCleanup
  \/ CleanupImmediate
  \/ CleanupIntervalFires
  \/ \E i \in 1..(MaxCleanups + 1) : CleanupDeletesLogs(i)
  \/ \E i \in 1..(MaxCleanups + 1) : CleanupDeletesEvents(i)
  \/ \E i \in 1..(MaxCleanups + 1) : CleanupFails(i)
  \/ passes = 0 /\ TimerFires
  \/ Alive /\ Settled /\ FetchDue(Server)
  \/ Alive /\ Settled /\ Claim(Server)
  \/ Alive /\ Settled /\ Dispatch(Server)
  \/ Alive /\ Settled /\ WriteBack(Server)
  \/ \E sig \in {"SIGTERM", "SIGINT"} : ~srv.isShuttingDown /\ Signal(sig)

SpecCleanup == InitCleanup /\ [][NextCleanup]_vars

\* ------------------------------------------------- the pipeline for ever
\* The trigger keeps firing (passes are not counted), time is not cut off,
\* store calls succeed and every handler call returns or raises.
LiveWorkers == {"w1"}

\* the fresh text event is stored; a webhook brings the join event before the
\* first retry delay has run
InitLive == Init /\ store = Left(0)
LiveBatches == {<<evJoin>>}
WebhookAtStart(rows) == clock = 0 /\ Webhook(rows)

\* setInterval: the timer calls the processor again and again
Trigger(w) == StartPass(w) /\ UNCHANGED <<passes, srv>>

TickLive ==
  /\ \E t \in Instants : clock' = t
  /\ UNCHANGED <<store, nextId, activeRun, pc, now, events, idx, result, held,
                 hist, crashes, passes, probe, srv>>

NextLive ==
  \/ TickLive
  \/ \E rows \in LiveBatches : WebhookAtStart(rows)
  \/ \E w \in LiveWorkers : Trigger(w)
  \/ \E w \in LiveWorkers : FetchDue(w)
  \/ \E w \in LiveWorkers : Claim(w)
  \/ \E w \in LiveWorkers : Dispatch(w)
  \/ \E w \in LiveWorkers : WriteBack(w)
  \/ \E w \in LiveWorkers : Crash(w)

\* setInterval keeps calling triggerProcessor, every await of the pass settles,
\* the clock runs; requests and crashes may stop coming
FairLive ==
  /\ WF_vars(TickLive)
  /\ \A w \in LiveWorkers :
       /\ WF_vars(Trigger(w))
       /\ WF_vars(FetchDue(w))
       /\ WF_vars(Claim(w))
       /\ WF_vars(Dispatch(w))
       /\ WF_vars(WriteBack(w))

SpecLive == InitLive /\ [][NextLive]_vars /\ FairLive

\* ---------------------------------------- the unsend that arrives first
\* The store when the workers start holds the unsend event only, its message
\* not yet delivered: as the endpoint inserted it (a = 0), or as earlier
\* passes left it after `a` attempts that did not find the message.
LeftUnsend(a) ==
  LET st == insertNewEventsBatch(EmptyStore, 1, <<evUnsend>>, 0).st
  IN IF a = 0 THEN st
     ELSE [st EXCEPT ![1].status = "FAILED_RETRYABLE",
                     ![1].attemptCount = a,
                     ![1].lastErrorMessage =
                       toErrorMessage(NotFoundYet(evUnsend.messageId))]

InitDispatch ==
  /\ clock = 0
  /\ \E a \in InitAttempts :
       /\ store = LeftUnsend(a)
       /\ hist = [id \in RowIds |->
                    IF id = 1 THEN [NoHist EXCEPT !.claims = a, !.calls = a]
                    ELSE NoHist]
  /\ nextId = 2
  /\ activeRun = [w \in Workers |-> FALSE]
  /\ pc = [w \in Workers |-> "idle"]
  /\ now = [w \in Workers |-> 0]
  /\ events = [w \in Workers |-> <<>>]
  /\ idx = [w \in Workers |-> 0]
  /\ result = [w \in Workers |-> NoResult]
  /\ held = [w \in Workers |-> NoHold]
  /\ crashes = 0
  /\ passes = 0
  /\ probe = NoProbe
  /\ srv = InitSrv

\* the requests that follow: the message itself, a mention, a join
DispatchBatches == {<<evText>>, <<evMention>>, <<evMentionGroup>>, <<evJoin>>}

\* one worker instance runs the passes here
DispatchWorkers == {"w1"}

NextDispatch ==
  \/ Tick
  \/ \E rows \in DispatchBatches : Webhook(rows)
  \/ \E w \in DispatchWorkers : StartPass(w) /\ Counted /\ UNCHANGED srv
  \/ \E w \in DispatchWorkers : FetchDue(w)
  \/ \E w \in DispatchWorkers : Claim(w)
  \/ \E w \in DispatchWorkers : Dispatch(w)
  \/ \E w \in DispatchWorkers : WriteBack(w)

SpecDispatch == InitDispatch /\ [][NextDispatch]_vars

\* ------------------------------------------------- every branch of dispatch
\* Two workers; the store holds the fresh text event, and one request brings
\* an event of another kind.
InitRouting == Init /\ store = Left(0)

RoutingBatches ==
  {<<evImage>>, <<evNoMessageId>>, <<evNoReplyToken>>, <<evNoQuoteToken>>,
   <<evUnsendNoId>>, <<evJoin>>, <<evFollow>>, <<evMentionGroup>>,
   <<evUnsend>>}

\* the one request of the run
WebhookOnce(rows) == Rows(store) = {1} /\ Webhook(rows)

NextRouting ==
  \/ Tick
  \/ \E rows \in RoutingBatches : WebhookOnce(rows)
  \/ \E w \in Workers : StartPass(w) /\ Counted /\ UNCHANGED srv
  \/ \E w \in Workers : FetchDue(w)
  \/ \E w \in Workers : Claim(w)
  \/ \E w \in Workers : Dispatch(w)
  \/ \E w \in Workers : WriteBack(w)

SpecRouting == InitRouting /\ [][NextRouting]_vars

\* --------------------------------------------- the end of a pass, observed
\* One process: the triggers, the pass with store calls that fail, and a
\* caller of waitForProcessorIdle.
NextMarker ==
  \/ TickServer
  \/ TimerFires
  \/ \E rows \in Batches : FirstRequest /\ WebhookInsert(rows)
  \/ WebhookRespond
  \/ WebhookImmediate
  \/ Alive /\ Settled /\ FetchDue(Server)
  \/ Alive /\ Settled /\ Claim(Server)
  \/ Alive /\ Settled /\ Dispatch(Server)
  \/ Alive /\ Settled /\ WriteBack(Server)
  \/ FetchFails(Server)
  \/ ClaimFails(Server)
  \/ LookupFails(Server)
  \/ MarkOutcomeFails(Server)
  \/ MarkFailureFails(Server)
  \/ \E timeoutMs \in WaitTimeouts : CallIdleWait(timeoutMs)
  \/ WaitDone
  \/ WaitTimeout

\* the process has just started: the endpoint stored the text event
InitMarker == Init /\ store = Left(0)

SpecMarker == InitMarker /\ [][NextMarker]_vars

\* ------------------------------------------------------------- withDbRetry
\* The retry wrapper of the store calls, run on its own: fn is invoked, and
\* each invocation resolves or rejects with one of the errors below.  An error
\* is its code and the fragments its message includes.
DefaultMaxRetries == 3
RetrySleepMs == 50
DbMaxRetries == {0, 1, DefaultMaxRetries}

DbError(code, fragments) == [code |-> code, includes |-> fragments]
DbErrors ==
  {DbError("40001", {}),
   DbError("P2034", {"40001"}),
   DbError("XX000", {"restart transaction"}),
   DbError("P1001", {})}
DbResolved == [code |-> "ok", includes |-> {}]

\* code === '40001' || msg.includes('40001') ||
\* msg.includes('restart transaction')
isRetryable40001(e) ==
  \/ e.code = "40001"
  \/ "40001" \in e.includes
  \/ "restart transaction" \in e.includes

\* withDbRetry(fn, maxRetries): retries = 0, the first invocation is due
DbRetryCalled(maxRetries) ==
  [op |-> "withDbRetry", maxRetries |-> maxRetries, retries |-> 0,
   calls |-> <<>>, pc |-> "call", sleepMs |-> 0]

\* one turn of the for-loop: `return await fn()`, or the catch block
DbRetryInvoked(p, outcome) ==
  LET q == [p EXCEPT !.calls = Append(@, outcome)]
  IN IF outcome = DbResolved
       THEN [q EXCEPT !.pc = "returned"]
     ELSE IF p.retries > p.maxRetries \/ ~isRetryable40001(outcome)
       THEN [q EXCEPT !.pc = "thrown"]
     ELSE [q EXCEPT !.pc = "sleep",
                    !.sleepMs = RetrySleepMs * (p.retries + 1)]

DbRetryStart ==
  /\ probe.op = "none"
  /\ \E m \in DbMaxRetries : probe' = DbRetryCalled(m)
  /\ UNCHANGED <<clock, store, nextId, activeRun, pc, now, events, idx,
                 result, hist, held, crashes, passes, srv>>

DbRetryInvoke ==
  /\ probe.op = "withDbRetry" /\ probe.pc = "call"
  /\ \E outcome \in DbErrors \cup {DbResolved} :
       probe' = DbRetryInvoked(probe, outcome)
  /\ UNCHANGED <<clock, store, nextId, activeRun, pc, now, events, idx,
                 result, hist, held, crashes, passes, srv>>

\* await sleep(50 * (retries + 1)), then retries++
DbRetrySlept ==
  /\ probe.op = "withDbRetry" /\ probe.pc = "sleep"
  /\ probe' = [probe EXCEPT !.retries = @ + 1, !.pc = "call"]
  /\ UNCHANGED <<clock, store, nextId, activeRun, pc, now, events, idx,
                 result, hist, held, crashes, passes, srv>>

NextDbRetry == DbRetryStart \/ DbRetryInvoke \/ DbRetrySlept

SpecDbRetry == Init /\ [][NextDbRetry]_vars

\* ---------------------------------------------------------- the ingestion
\* Two workers and an empty store: requests bring batches of one and of two
\* events, in and against the order of their platform timestamps.
IngestBatches ==
  {<<evText, evUnsend>>, <<evUnsend, evText>>, <<evText, evJoin>>, <<evJoin>>}

InitIngest ==
  /\ clock = 0
  /\ store = EmptyStore
  /\ hist = [id \in RowIds |-> NoHist]
  /\ nextId = 1
  /\ activeRun = [w \in Workers |-> FALSE]
  /\ pc = [w \in Workers |-> "idle"]
  /\ now = [w \in Workers |-> 0]
  /\ events = [w \in Workers |-> <<>>]
  /\ idx = [w \in Workers |-> 0]
  /\ result = [w \in Workers |-> NoResult]
  /\ held = [w \in Workers |-> NoHold]
  /\ crashes = 0
  /\ passes = 0
  /\ probe = NoProbe
  /\ srv = InitSrv

NextIngest ==
  \/ Tick
  \/ \E rows \in IngestBatches : Webhook(rows)
  \/ \E w \in Workers : StartPass(w) /\ Counted /\ UNCHANGED srv
  \/ \E w \in Workers : FetchDue(w)
  \/ \E w \in Workers : Claim(w)
  \/ \E w \in Workers : Dispatch(w)
  \/ \E w \in Workers : WriteBack(w)

SpecIngest == InitIngest /\ [][NextIngest]_vars

\* ------------------------------------------------- the retry policy alone
\* The retry policy applied to every attempt number, failure time and error,
\* the error as the platform client raised it or as a handler let it escape.
ProbeTimes == {0, 1, 999, 1000, 5000, 59000, 60000, 61000, 3600000}
ProbeErrors == RawErrors \cup {TerminalError("tagged by the handler")}

ProbeCalcNextTryAt ==
  /\ \E a \in 1..MaxProbeAttempt : \E t \in ProbeTimes :
       probe' = [op |-> "calcNextTryAt", attempt |-> a, t |-> t,
                 out |-> calcNextTryAt(a, t)]
  /\ UNCHANGED <<clock, store, nextId, activeRun, pc, now, events, idx,
                 result, hist, held, crashes, passes, srv>>

ProbeOnError ==
  /\ \E e \in ProbeErrors : \E a \in 1..MaxProbeAttempt :
       \E viaHandler \in BOOLEAN :
         LET thrown == IF viaHandler THEN throwAsTerminalIfNeeded(e) ELSE e
         IN probe' = [op |-> "onError", raw |-> e, attempt |-> a,
                      viaHandler |-> viaHandler, thrown |-> thrown,
                      out |-> OnError(a, thrown, 0)]
  /\ UNCHANGED <<clock, store, nextId, activeRun, pc, now, events, idx,
                 result, hist, held, crashes, passes, srv>>

NextPolicy == ProbeCalcNextTryAt \/ ProbeOnError

SpecPolicy == Init /\ [][NextPolicy]_vars

\* ================================================================ claims

\* C1: after any sequence of insertBatch calls the store holds one row per
\* externalEventId, and an insert that hits a stored externalEventId leaves
\* every stored row as it was (status, attemptCount, nextTryAt and payload),
\* also when the row is PROCESSING or terminal.
C1_OneRowPerExternalId ==
  \A a \in Rows(store) : \A b \in Rows(store) :
    store[a].webhookEventId = store[b].webhookEventId => a = b

C1_InsertIdempotent ==
  /\ []C1_OneRowPerExternalId
  /\ [][(\E rows \in Batches : Webhook(rows)) =>
          \A id \in Rows(store) : store'[id] = store[id]]_vars

\* a re-delivery hit a row that had left RECEIVED, and the row is claimed or
\* terminal
C1_Witness ==
  \E id \in Rows(store) :
    /\ hist[id].dupBusy
    /\ store[id].status \in TerminalStatuses \cup {"PROCESSING"}

\* C2: of N claims issued together on one due row with one time window
\* (the store runs them one after another) exactly the first returns true and
\* attemptCount grows by exactly 1; in a pass, the claim of a due row succeeds,
\* adds 1 to attemptCount and leaves the row unclaimable for every pass with
\* the same window; attemptCount counts the successful claims.
C2_Windows == {clock} \cup {now[w] : w \in Workers}

C2_ThreeClaims(id, n) ==
  LET c1 == claimEventForProcessing(store, id, n)
      c2 == claimEventForProcessing(c1.st, id, n)
      c3 == claimEventForProcessing(c2.st, id, n)
  IN /\ c1.claimed /\ ~c2.claimed /\ ~c3.claimed
     /\ c3.st[id].attemptCount = store[id].attemptCount + 1

C2_ClaimStep(w) ==
  LET id == events[w][idx[w]].id
  IN (Claim(w) /\ IsDue(store[id], now[w])) =>
       /\ pc'[w] = "dispatch"
       /\ store'[id].attemptCount = store[id].attemptCount + 1
       /\ \A v \in Workers :
            now[v] = now[w] =>
              ~claimEventForProcessing(store', id, now[v]).claimed

C2_ExactlyOneClaimWins ==
  /\ [](\A id \in Rows(store) :
          /\ store[id].attemptCount = hist[id].claims
          /\ \A n \in C2_Windows :
               IsDue(store[id], n) => C2_ThreeClaims(id, n))
  /\ [][\A w \in Workers : C2_ClaimStep(w)]_vars

\* two passes with the same `now` both tried the row: one holds it, the other
\* lost it, and the row was claimed once since they fetched it
C2_Witness ==
  \E w \in Workers : \E v \in Workers \ {w} :
    /\ held[w].id # 0
    /\ held[w].id \in held[v].lost
    /\ activeRun[v] /\ now[v] = now[w]
    /\ hist[held[w].id].claims = events[w][idx[w]].attemptCount + 1

\* C3: an event is never handled by two workers at once as long as the first
\* handler is within the lease duration counted from the moment its claim was
\* executed: when two workers hold a claim on the same row, the later claim
\* was executed at least LEASE_TIME_MS after the earlier one.
C3_NoDoubleHandlingWithinLease ==
  \A w \in Workers : \A v \in Workers \ {w} :
    (held[w].id # 0 /\ held[w].id = held[v].id /\ held[w].at <= held[v].at)
      => held[v].at >= held[w].at + LEASE_TIME_MS

\* C4: a PROCESSING row whose lease (nextTryAt) has passed is returned by
\* every fetchDueEvents whose `now` is at or after the lease expiry and a claim
\* with that `now` succeeds on it; before the expiry no claim succeeds.
C4_Windows(id) == {store[id].nextTryAt, clock, MaxClock + LEASE_TIME_MS}

C5_NoRetryableAtBudget ==
  \A id \in Rows(store) :
    ~(store[id].status = "FAILED_RETRYABLE"
        /\ store[id].attemptCount >= MAX_ATTEMPTS)

\* C6: attemptCount never exceeds MAX_ATTEMPTS and the handlers are invoked
\* at most MAX_ATTEMPTS times for an event.
C6_AttemptBudget ==
  \A id \in Rows(store) :
    /\ store[id].attemptCount <= MAX_ATTEMPTS
    /\ hist[id].calls <= MAX_ATTEMPTS

\* C8: when dispatch raised on attempt a (the attemptCount stored by the
\* worker's claim), the row is written FAILED_TERMINAL iff the error is not
\* retryable or a >= MAX_ATTEMPTS, and otherwise FAILED_RETRYABLE with
\* nextTryAt = the time of the failure + delay(a); lastErrorMessage is the
\* error's message in both cases.
C8_FailureWrite(w) ==
  LET id == held[w].id
      a == held[w].count
      terminal == ~isRetryableError(held[w].err) \/ a >= MAX_ATTEMPTS
  IN (WriteBack(w) /\ held[w].raised) =>
       /\ store'[id].lastErrorMessage = held[w].err.message
       /\ IF terminal
            THEN store'[id].status = "FAILED_TERMINAL"
            ELSE /\ store'[id].status = "FAILED_RETRYABLE"
                 /\ store'[id].nextTryAt = held[w].raisedAt + delayMs(a)

C8_FailureClassification == [][\A w \in Workers : C8_FailureWrite(w)]_vars

\* C10: a DONE, IGNORED or FAILED_TERMINAL row has nextTryAt = null, no
\* fetchDueEvents returns it and no claim succeeds on it, whatever `now` is.
C10_Windows == {0, clock, MaxClock + LEASE_TIME_MS} \cup
               {now[w] : w \in Workers}

C10_TerminalRowsAreNeverDue ==
  \A id \in Rows(store) :
    store[id].status \in TerminalStatuses =>
      /\ store[id].nextTryAt = Null
      /\ \A n \in C10_Windows :
           /\ \A s \in fetchDueEvents(store, BATCH_SIZE, n) :
                \A i \in 1..Len(s) : s[i].id # id
           /\ ~claimEventForProcessing(store, id, n).claimed

\* a pass fetched the row while it was due, another worker finished it, and
\* the pass's claim on the terminal row failed
C10_Witness ==
  \E w \in Workers : \E id \in held[w].lost :
    store[id].status \in TerminalStatuses

\* C7: the retry delay for attempts 1..7 is exactly 1s, 2s, 4s, 8s, 16s, 32s,
\* 60s, and it is 60s, never more, for every larger attempt number.
C7_Delays == <<1000, 2000, 4000, 8000, 16000, 32000, 60000>>

C7_DelaySequence ==
  probe.op = "calcNextTryAt" =>
    LET d == probe.out - probe.t
    IN IF probe.attempt <= 7 THEN d = C7_Delays[probe.attempt] ELSE d = 60000

C7_Witness ==
  probe.op = "calcNextTryAt" /\ probe.attempt = 7 /\ probe.out = 65000

\* C9: a platform HTTP failure with a 4xx status other than 408 is terminal on
\* every attempt, the first included; 408, 5xx and status 0 are retryable
\* (while the attempt budget lasts); any other error is retryable unless it is
\* a TerminalError; the same holds for the error as raised and for the error
\* the handler lets escape.
C9_Is4xx(e) ==
  e.name = "HTTPFetchError" /\ e.status >= 400 /\ e.status < 500
    /\ e.status # 408

C9_IsTransient(e) ==
  e.name = "HTTPFetchError" /\ (e.status = 408 \/ e.status >= 500 \/ e.status = 0)

C9_ErrorClassification ==
  probe.op = "onError" =>
    /\ C9_Is4xx(probe.raw) => probe.out.type = "terminal"
    /\ (C9_IsTransient(probe.raw) /\ probe.attempt < MAX_ATTEMPTS)
         => probe.out.type = "retryable"
    /\ (probe.raw.name = "Error" /\ probe.attempt < MAX_ATTEMPTS)
         => probe.out.type = "retryable"
    /\ probe.raw.name = "TerminalError" => probe.out.type = "terminal"

\* a 429 on the first attempt, inspected by the processor as it was raised
C9_Witness ==
  /\ probe.op = "onError" /\ probe.attempt = 1 /\ ~probe.viaHandler
  /\ probe.raw = HTTPFetchError(429) /\ probe.out.type = "terminal"

\* C17: a message event dispatched while an unsend for its messageId is stored
\* invokes the retraction handler only (neither the plain-message nor the
\* language-registration handler, so no reply) and, the handler returning, is
\* written IGNORED; the unsend event, dispatched on its own, invokes the
\* retraction handler and, the handler returning, is written DONE.
C17_DispatchStep(w) ==
  LET event == events[w][idx[w]]
  IN /\ (Dispatch(w) /\ event.eventType = "message"
           /\ hasUnsendEventForMessageId(store, event.messageId)) =>
          /\ held'[w].handler = "unsend"
          /\ hist'[event.id].calls = hist[event.id].calls + 1
          /\ held'[w].raised \/ result'[w].type = "ignored"
     /\ (Dispatch(w) /\ event.eventType = "unsend") =>
          /\ held'[w].handler = "unsend"
          /\ held'[w].raised \/ result'[w].type = "done"

C17_WriteStep(w) ==
  LET event == events[w][idx[w]]
  IN (WriteBack(w) /\ held[w].handler = "unsend" /\ ~held[w].raised) =>
       store'[event.id].status =
         IF event.eventType = "message" THEN "IGNORED" ELSE "DONE"

C17_UnsentMessageIsIgnored ==
  [][\A w \in Workers : C17_DispatchStep(w) /\ C17_WriteStep(w)]_vars

\* the unsend arrived before the message was dispatched: the message row is
\* IGNORED as already unsent, after one call of the retraction handler, and
\* the unsend row is DONE
C17_Witness ==
  \E m \in Rows(store) : \E u \in Rows(store) :
    /\ store[m].eventType = "message" /\ store[m].status = "IGNORED"
    /\ store[m].lastErrorMessage = "Message already unsent: m1"
    /\ store[m].messageText = NullStr
    /\ store[m].attemptCount = 1 /\ hist[m].calls = 1
    /\ store[u].eventType = "unsend" /\ store[u].status = "DONE"
    /\ store[u].messageId = store[m].messageId

\* C19: whenever the handler raised for a claimed event, the row the pass
\* writes for that attempt is FAILED_RETRYABLE or FAILED_TERMINAL, never DONE
\* or IGNORED.
C19_WriteStep(w) ==
  (WriteBack(w) /\ held[w].raised) =>
    store'[held[w].id].status \in {"FAILED_RETRYABLE", "FAILED_TERMINAL"}

C19_RaisedIsNeverDoneOrIgnored == [][\A w \in Workers : C19_WriteStep(w)]_vars

\* a handler raised and the row was written as a failure carrying the error
C19_Witness ==
  \E id \in Rows(store) :
    /\ store[id].status \in {"FAILED_RETRYABLE", "FAILED_TERMINAL"}
    /\ store[id].attemptCount = 1 /\ hist[id].calls = 1
    /\ store[id].lastErrorMessage \in
         {toErrorMessage(throwAsTerminalIfNeeded(e)) : e \in HandlerFailures}

\* C18: a mention-flagged message event with message id, text, reply token and
\* quote token but no group id (and no unsend stored for it) is dispatched to
\* no handler and is written IGNORED with the reason that names the missing
\* group id; it is never a failure, and once IGNORED it is never claimed again.
C18_IsGrouplessMention(row) ==
  /\ row.eventType = "message" /\ row.isMentioned = TRUE
  /\ Absent(row.sourceGroupId)
  /\ ~Absent(row.messageId) /\ ~Absent(row.messageText)
  /\ ~Absent(row.replyToken) /\ ~Absent(row.quoteToken)

C18_State ==
  \A id \in Rows(store) :
    (C18_IsGrouplessMention(store[id])
       /\ ~hasUnsendEventForMessageId(store, store[id].messageId)) =>
      /\ hist[id].calls = 0
      /\ store[id].status \in {"RECEIVED", "PROCESSING", "IGNORED"}
      /\ store[id].status = "IGNORED" =>
           /\ store[id].lastErrorMessage =
                "No source group ID for mentioned message"
           /\ store[id].nextTryAt = Null
           /\ store[id].attemptCount = 1

C18_Step ==
  \A id \in Rows(store) :
    (C18_IsGrouplessMention(store[id]) /\ store[id].status = "IGNORED") =>
      store'[id] = store[id]

C20_DispatchStep(w) ==
  LET event == events[w][idx[w]]
  IN /\ (Dispatch(w) /\ event.eventType = "unsend"
           /\ MessageRows(store, event.messageId) = {}) =>
          /\ held'[w].raised
          /\ isRetryableError(held'[w].err)
     /\ (Dispatch(w) /\ event.eventType = "unsend"
           /\ MessageRows(store, event.messageId) # {}) =>
          /\ held'[w].err # NotFoundYet(event.messageId)
          /\ held'[w].raised \/ result'[w].type = "done"
     /\ (Dispatch(w) /\ event.eventType = "message"
           /\ hasUnsendEventForMessageId(store, event.messageId)) =>
          /\ held'[w].handler = "unsend"
          /\ held'[w].raised \/ result'[w].type = "ignored"

C20_ReturnedWrite(w) ==
  LET event == events[w][idx[w]]
  IN (WriteBack(w) /\ held[w].handler = "unsend" /\ ~held[w].raised) =>
       store'[event.id].status =
         IF event.eventType = "unsend" THEN "DONE" ELSE "IGNORED"

C20_IsNotFoundWrite(w) ==
  LET event == events[w][idx[w]]
  IN /\ WriteBack(w) /\ event.eventType = "unsend" /\ held[w].raised
     /\ held[w].err = NotFoundYet(event.messageId)

C20_NotFoundWriteAsStated(w) ==
  C20_IsNotFoundWrite(w) => store'[held[w].id].status = "FAILED_RETRYABLE"

C20_NotFoundWriteAmended(w) ==
  C20_IsNotFoundWrite(w) =>
    /\ store'[held[w].id].status \in {"FAILED_RETRYABLE", "FAILED_TERMINAL"}
    /\ held[w].count < MAX_ATTEMPTS =>
         store'[held[w].id].status = "FAILED_RETRYABLE"
    /\ store'[held[w].id].status = "FAILED_TERMINAL" =>
         held[w].count >= MAX_ATTEMPTS

C12_State ==
  /\ activeRun[Server] = (pc[Server] # "idle")
  /\ activeRun[Server] => srv.signal = passes

C12_Step ==
  /\ passes' # passes =>
       /\ pc[Server] = "idle" /\ ~activeRun[Server]
       /\ pc'[Server] = "fetch" /\ activeRun'[Server]
       /\ srv'.signal = passes'
  /\ ((TimerFires \/ WebhookImmediate) /\ pc[Server] # "idle") =>
       /\ UNCHANGED <<activeRun, pc, now, events, idx, result, store, passes>>
       /\ srv'.signal = passes

C12_SingleFlight == []C12_State /\ [][C12_Step]_vars

\* the only pass ever started fetched before the request was stored and is
\* still running after the request's on-demand trigger fired
C12_Witness ==
  /\ passes = 1 /\ pc[Server] \in {"claim", "dispatch", "mark"}
  /\ srv.req.inserted /\ srv.req.triggered /\ srv.signal = 1
  /\ \E id \in Rows(store) :
       /\ \E i \in 1..Len(srv.req.rows) :
            srv.req.rows[i].webhookEventId = store[id].webhookEventId
       /\ \A i \in 1..Len(events[Server]) : events[Server][i].id # id

\* C13: a failure while one event is processed (the handler raising, or a
\* store call for that event failing) does not keep the pass from the events
\* fetched after it: a pass that fetched events ends only after the last of
\* them.
C13_PassEnds ==
  /\ pc[Server] \in {"claim", "dispatch", "mark"}
  /\ pc'[Server] = "idle"

C13_FailureDoesNotAbortBatch ==
  [][C13_PassEnds => idx[Server] = Len(events[Server])]_vars

\* C16: the endpoint answers 200 only after the insert of the request's rows
\* succeeded (every row of the request is stored); when the insert fails it
\* answers 500 and the on-demand trigger is not fired; the trigger is fired
\* only after the 200 response.
C16_Stored(rows) ==
  \A i \in 1..Len(rows) :
    \E id \in Rows(store) : store[id].webhookEventId = rows[i].webhookEventId

C16_AckOnlyAfterPersist ==
  /\ srv.req.status = 200 => (srv.req.inserted /\ C16_Stored(srv.req.rows))
  /\ srv.req.inserted => (srv.req.status \in {0, 200})
  /\ (~srv.req.inserted /\ srv.req.pc = "none" /\ srv.req.rows # <<>>) =>
       (srv.req.status = 500 /\ ~srv.req.triggered)
  /\ srv.req.status = 500 => ~srv.req.triggered
  /\ (srv.req.triggered \/ srv.req.pc = "immediate") => srv.req.status = 200

\* a request of two events was stored, answered 200 and then triggered a pass
C16_Witness ==
  /\ srv.req.status = 200 /\ srv.req.triggered
  /\ Len(srv.req.rows) = 2 /\ C16_Stored(srv.req.rows)
  /\ activeRun[Server]

\* C14: waitForProcessorIdle called while no pass is in flight is true at
\* once; called during a pass it becomes true only when the pass has ended and
\* false only when the timeout has elapsed with the pass still in flight (so
\* at once for a timeout of 0 ms); the caller never waits past the timeout.
C14_State ==
  LET wait == srv.wait
  IN /\ (wait.state # "none" /\ ~wait.inFlight) =>
          (wait.state = "true" /\ wait.resolvedAt = wait.calledAt)
     /\ wait.state = "pending" =>
          (wait.inFlight /\ clock <= wait.calledAt + wait.timeoutMs)
     /\ wait.state \in {"true", "false"} =>
          wait.resolvedAt <= wait.calledAt + wait.timeoutMs
     /\ wait.state = "false" =>
          (wait.inFlight /\ wait.resolvedAt = wait.calledAt + wait.timeoutMs)

C14_Step ==
  /\ (srv.wait.state = "pending" /\ srv'.wait.state = "true") =>
       ~activeRun[Server]
  /\ (srv.wait.state = "pending" /\ srv'.wait.state = "false") =>
       (activeRun[Server] /\ activeRun'[Server])
  /\ (srv.wait.state = "pending" /\ ~activeRun[Server] /\ Alive) =>
       srv'.wait.state = "true"

C14_IdleWait == []C14_State /\ [][C14_Step]_vars

\* called with 0 ms during a pass: false, and the pass is still in flight
C14_Witness ==
  /\ srv.wait.state = "false" /\ srv.wait.timeoutMs = 0
  /\ srv.wait.resolvedAt = srv.wait.calledAt
  /\ pc[Server] \in {"dispatch", "mark"}

\* C15: on SIGTERM or SIGINT the interval timer is stopped, then the HTTP
\* server stops accepting, then the process waits for the processor to become
\* idle, and the store connection is released only after that wait has
\* returned, never while it is pending or before it began.
C15_ShutdownOrder ==
  Alive =>
    /\ ~srv.listening => ~srv.timer
    /\ srv.sd \in {"waiting", "disconnecting", "done"} =>
         (~srv.timer /\ ~srv.listening)
    /\ srv.conn # "open" =>
         /\ srv.sd \in {"disconnecting", "done"}
         /\ srv.wait.state \in {"true", "false"}

\* C11: every stored event eventually has a terminal status (DONE, IGNORED or
\* FAILED_TERMINAL), the trigger firing for ever, store calls succeeding,
\* handler calls ending and crashes being finitely many; and the scan cut to
\* `limit` rows takes the due rows in the order of nextTryAt, so that no due
\* row is passed over for a later one.
C11_OldestFirst ==
  \A limit \in 1..MaxRows :
    \A s \in fetchDueEvents(store, limit, clock) :
      /\ Len(s) = Min(limit, Cardinality(DueIds(store, clock)))
      /\ \A id \in DueIds(store, clock) :
           (\A i \in 1..Len(s) : s[i].id # id) =>
             \A i \in 1..Len(s) : ~Before(store[id], s[i])

C22_Limits == 1..MaxRows \cup {BATCH_SIZE}
C22_Windows == {0, clock, MaxClock + LEASE_TIME_MS} \cup
               {now[w] : w \in Workers}

C22_Matches(row, n) ==
  /\ row.status \in {"RECEIVED", "FAILED_RETRYABLE", "PROCESSING"}
  /\ row.nextTryAt # Null
  /\ row.nextTryAt <= n

C22_Result(s, limit, n) ==
  LET matching == {id \in Rows(store) : C22_Matches(store[id], n)}
      got == {s[i].id : i \in 1..Len(s)}
  IN /\ Len(s) = Min(limit, Cardinality(matching))
     /\ Cardinality(got) = Len(s)
     /\ got \subseteq matching
     /\ \A i \in 1..Len(s) : s[i] = store[s[i].id]
     /\ \A i, j \in 1..Len(s) :
          i < j =>
            \/ s[i].nextTryAt < s[j].nextTryAt
            \/ /\ s[i].nextTryAt = s[j].nextTryAt
               /\ s[i].lineTimestampMs <= s[j].lineTimestampMs
     /\ \A id \in matching \ got : \A i \in 1..Len(s) :
          \/ s[i].nextTryAt < store[id].nextTryAt
          \/ /\ s[i].nextTryAt = store[id].nextTryAt
             /\ s[i].lineTimestampMs <= store[id].lineTimestampMs

C22_State ==
  \A limit \in C22_Limits : \A n \in C22_Windows :
    /\ fetchDueEvents(store, limit, n) # {}
    /\ \A s \in fetchDueEvents(store, limit, n) : C22_Result(s, limit, n)

C22_Step ==
  \A w \in Workers :
    FetchDue(w) =>
      /\ store' = store
      /\ C22_Result(events'[w], BATCH_SIZE, now[w])

C22_FetchDue == []C22_State /\ [][C22_Step]_vars

\* a pass fetched one of two stored rows: the other was terminal or not yet
\* due at the `now` of the pass
C22_Witness ==
  \E w \in Workers :
    /\ pc[w] = "claim" /\ idx[w] = 1 /\ Len(events[w]) = 1
    /\ \E id \in Rows(store) :
         /\ id # events[w][1].id
         /\ hist[id].claims = store[id].attemptCount
         /\ \/ store[id].status \in TerminalStatuses
            \/ store[id].status = "FAILED_RETRYABLE"
                 /\ store[id].nextTryAt > now[w]

\* C23: claimEventForProcessing(id, now) returns true exactly when the row has
\* status RECEIVED, FAILED_RETRYABLE or PROCESSING and nextTryAt <= now; then
\* the row is PROCESSING with attemptCount + 1 and nextTryAt = now +
\* LEASE_TIME_MS (60 s) and nothing else is changed; when it returns false no
\* field of any row is changed.
C23_Windows == {0, clock, MaxClock + LEASE_TIME_MS} \cup
               {now[w] : w \in Workers}

C23_Effect(st, id, n, r) ==
  LET matches == /\ st[id].status \in {"RECEIVED", "FAILED_RETRYABLE",
                                       "PROCESSING"}
                 /\ st[id].nextTryAt # Null
                 /\ st[id].nextTryAt <= n
  IN /\ r.claimed = matches
     /\ r.claimed =>
          r.st = [st EXCEPT ![id] =
                    [st[id] EXCEPT !.status = "PROCESSING",
                                   !.attemptCount = st[id].attemptCount + 1,
                                   !.nextTryAt = n + LEASE_TIME_MS]]
     /\ ~r.claimed => r.st = st

C23_State ==
  \A id \in Rows(store) : \A n \in C23_Windows :
    C23_Effect(store, id, n, claimEventForProcessing(store, id, n))

C23_Step ==
  \A w \in Workers :
    Claim(w) =>
      LET id == events[w][idx[w]].id
      IN C23_Effect(store, id, now[w],
                    [st |-> store', claimed |-> pc'[w] = "dispatch"])

C23_ClaimContract == []C23_State /\ [][C23_Step]_vars

\* one pass holds the row it claimed for a retry, the lease set from its
\* `now`; the other pass was refused a row
C23_Witness ==
  \E w \in Workers : \E v \in Workers \ {w} :
    /\ pc[w] = "dispatch"
    /\ events[w][idx[w]].status = "FAILED_RETRYABLE"
    /\ store[held[w].id].status = "PROCESSING"
    /\ store[held[w].id].nextTryAt = now[w] + LEASE_TIME_MS
    /\ store[held[w].id].attemptCount = events[w][idx[w]].attemptCount + 1
    /\ held[v].lost # {}

\* C24: attemptCount is 0 in a row just inserted, never decreases, and changes
\* only in the step of a successful claim of that row, by exactly 1;
\* markEventDone, markEventIgnored, markEventRetryableFailure,
\* markEventTerminalFailure, a refused claim and a duplicate insert leave it as
\* it is.
C24_Counts(st) == [id \in Rows(store) |-> st[id].attemptCount]

C24_State ==
  /\ \A id \in Rows(store) :
       /\ store[id].attemptCount >= 0
       /\ C24_Counts(markEventDone(store, id)) = C24_Counts(store)
       /\ C24_Counts(markEventIgnored(store, id, "reason")) = C24_Counts(store)
       /\ C24_Counts(markEventRetryableFailure(store, id, "message", clock))
            = C24_Counts(store)
       /\ C24_Counts(markEventTerminalFailure(store, id, "message"))
            = C24_Counts(store)
       /\ ~IsDue(store[id], clock) =>
            C24_Counts(claimEventForProcessing(store, id, clock).st)
              = C24_Counts(store)
  /\ \A rows \in Batches :
       C24_Counts(insertNewEventsBatch(store, nextId, rows, clock).st)
         = C24_Counts(store)

C24_Step ==
  \A id \in RowIds :
    IF id \in Rows(store)
      THEN /\ store'[id].attemptCount >= store[id].attemptCount
           /\ store'[id].attemptCount # store[id].attemptCount =>
                /\ store'[id].attemptCount = store[id].attemptCount + 1
                /\ \E w \in Workers :
                     /\ pc[w] = "claim" /\ events[w][idx[w]].id = id
                     /\ IsDue(store[id], now[w])
                     /\ pc'[w] = "dispatch"
      ELSE id \in Rows(store') => store'[id].attemptCount = 0

C24_AttemptCountMonotone == []C24_State /\ [][C24_Step]_vars

\* a row inserted with count 0 was claimed, written back FAILED_RETRYABLE and
\* delivered again by the platform, and a second row was inserted: its count
\* is what the claims made it
C24_Witness ==
  \E id \in Rows(store) : \E other \in Rows(store) :
    /\ store[id].status = "FAILED_RETRYABLE"
    /\ store[id].attemptCount = 1
    /\ hist[id].dupBusy
    /\ other # id /\ store[other].attemptCount = 0

\* C25: a worker invokes a handler for a row and writes an outcome to it
\* (markEventDone, markEventIgnored, markEventRetryableFailure,
\* markEventTerminalFailure) only after its own claim of that row succeeded in
\* the pass; a row whose claim returned false is neither handled nor written
\* by that worker, and the pass goes on with the next event, nothing recorded.
C25_Outcome(row) == <<row.status, row.nextTryAt, row.lastErrorMessage>>

C25_State ==
  \A w \in Workers :
    pc[w] \in {"dispatch", "mark"} =>
      /\ held[w].id = events[w][idx[w]].id
      /\ held[w].id \notin held[w].lost

C25_Step ==
  /\ \A w \in Workers :
       LET id == events[w][idx[w]].id
       IN /\ (held'[w].id # held[w].id /\ held'[w].id # 0) =>
               /\ pc[w] = "claim" /\ held'[w].id = id
               /\ store[id].status \in {"RECEIVED", "FAILED_RETRYABLE",
                                        "PROCESSING"}
               /\ store[id].nextTryAt # Null /\ store[id].nextTryAt <= now[w]
               /\ store'[id].status = "PROCESSING"
               /\ store'[id].attemptCount = store[id].attemptCount + 1
          /\ (Claim(w) /\ pc'[w] # "dispatch") =>
               /\ store' = store /\ result' = result /\ hist' = hist
               /\ held'[w].id = 0
               /\ IF idx[w] < Len(events[w])
                    THEN /\ pc'[w] = "claim" /\ idx'[w] = idx[w] + 1
                         /\ events'[w] = events[w]
                    ELSE pc'[w] = "idle"
  /\ \A id \in Rows(store) :
       /\ C25_Outcome(store'[id]) # C25_Outcome(store[id]) =>
            \E w \in Workers :
              /\ pc[w] \in {"claim", "mark"}
              /\ events[w][idx[w]].id = id
              /\ \/ pc[w] = "claim" /\ held'[w].id = id
                 \/ pc[w] = "mark" /\ held[w].id = id
       /\ hist'[id].calls # hist[id].calls =>
            \E w \in Workers :
              pc[w] = "dispatch" /\ held[w].id = id

C25_OnlyClaimedRowsAreHandled == []C25_State /\ [][C25_Step]_vars

\* a pass was refused the first row it fetched, went on, claimed the second
\* and is about to write its outcome
C25_Witness ==
  \E w \in Workers :
    /\ pc[w] = "mark" /\ idx[w] = 2
    /\ held[w].lost = {events[w][1].id}
    /\ held[w].id = events[w][2].id
    /\ result[w].type # "none"

\* C26: a message event without a message id, or (no unsend stored for it)
\* without message text, reply token or quote token, ends IGNORED after a
\* single attempt: no handler is invoked for it, it is never written as a
\* failure, and once IGNORED it is never claimed again.
C26_IsMalformed(row) ==
  /\ row.eventType = "message"
  /\ \/ Absent(row.messageId)
     \/ /\ ~hasUnsendEventForMessageId(store, row.messageId)
        /\ \/ Absent(row.messageText)
           \/ Absent(row.replyToken)
           \/ Absent(row.quoteToken)

C26_State ==
  \A id \in Rows(store) :
    C26_IsMalformed(store[id]) =>
      /\ hist[id].calls = 0
      /\ store[id].status \in {"RECEIVED", "PROCESSING", "IGNORED"}
      /\ store[id].attemptCount <= 1
      /\ store[id].status = "IGNORED" =>
           /\ store[id].attemptCount = 1
           /\ store[id].nextTryAt = Null
           /\ store[id].lastErrorMessage \in
                {"No message ID", "No message text", "No reply token",
                 "No quote token"}

C26_Step ==
  \A id \in Rows(store) :
    (C26_IsMalformed(store[id]) /\ store[id].status = "IGNORED") =>
      store'[id] = store[id]

C26_MalformedMessageIsIgnored == []C26_State /\ [][C26_Step]_vars

\* C27: for a message event with message id, text, reply token and quote
\* token and no unsend stored for it, an attempt invokes exactly one handler:
\* the language-registration handler when the event is mention-flagged and
\* has a group id, the plain-message handler when it is not mention-flagged,
\* never both; and when the handler returns the attempt writes the row DONE.
C27_WellFormed(e) ==
  /\ e.eventType = "message"
  /\ ~Absent(e.messageId) /\ ~Absent(e.messageText)
  /\ ~Absent(e.replyToken) /\ ~Absent(e.quoteToken)
  /\ e.isMentioned => ~Absent(e.sourceGroupId)

C27_DispatchStep(w) ==
  LET e == events[w][idx[w]]
  IN (Dispatch(w) /\ C27_WellFormed(e)
        /\ ~hasUnsendEventForMessageId(store, e.messageId)) =>
       /\ hist'[e.id].calls = hist[e.id].calls + 1
       /\ held'[w].handler =
            IF e.isMentioned THEN "languageRegistration" ELSE "text"
       /\ ~held'[w].raised => result'[w].type = "done"

C27_WriteStep(w) ==
  LET id == events[w][idx[w]].id
  IN (WriteBack(w) /\ held[w].handler \in {"text", "languageRegistration"}
        /\ ~held[w].raised) =>
       /\ store'[id].status = "DONE"
       /\ store'[id].nextTryAt = Null

C28_HasNoId(e) == e.messageId \in {NullStr, ""}

C28_State ==
  \A id \in Rows(store) :
    (store[id].eventType = "unsend" /\ C28_HasNoId(store[id])) =>
      /\ hist[id].calls = 0
      /\ store[id].status \in {"RECEIVED", "PROCESSING", "IGNORED"}
      /\ store[id].status = "IGNORED" =>
           /\ store[id].nextTryAt = Null
           /\ store[id].lastErrorMessage = "No message ID"

C28_DispatchStep(w) ==
  LET e == events[w][idx[w]]
  IN (Dispatch(w) /\ e.eventType = "unsend") =>
       IF C28_HasNoId(e)
         THEN /\ held'[w].handler = "none"
              /\ hist'[e.id].calls = hist[e.id].calls
              /\ result'[w].type = "ignored"
         ELSE /\ held'[w].handler = "unsend"
              /\ hist'[e.id].calls = hist[e.id].calls + 1
              /\ ~held'[w].raised => result'[w].type = "done"

C28_WriteStep(w) ==
  LET e == events[w][idx[w]]
  IN (WriteBack(w) /\ e.eventType = "unsend" /\ ~held[w].raised) =>
       /\ store'[e.id].status =
            IF C28_HasNoId(e) THEN "IGNORED" ELSE "DONE"
       /\ store'[e.id].nextTryAt = Null

C28_UnsendRouting ==
  /\ []C28_State
  /\ [][\A w \in Workers : C28_DispatchStep(w) /\ C28_WriteStep(w)]_vars

\* the unsend without a message id was claimed and written IGNORED, with no
\* handler call
C28_Witness ==
  \E id \in Rows(store) :
    /\ store[id].eventType = "unsend" /\ C28_HasNoId(store[id])
    /\ store[id].status = "IGNORED"
    /\ store[id].attemptCount >= 1
    /\ hist[id].calls = 0

\* C29: an event whose type is neither message nor unsend (join and every
\* other type) ends IGNORED, the reason naming the type, after exactly one
\* attempt: no handler is invoked for it, and it is never retried.
C29_IsOtherType(row) == row.eventType \notin {"message", "unsend"}

C29_State ==
  \A id \in Rows(store) :
    C29_IsOtherType(store[id]) =>
      /\ hist[id].calls = 0
      /\ store[id].status \in {"RECEIVED", "PROCESSING", "IGNORED"}
      /\ store[id].attemptCount <= 1
      /\ store[id].status = "IGNORED" =>
           /\ store[id].attemptCount = 1
           /\ store[id].nextTryAt = Null
           /\ store[id].lastErrorMessage =
                "Unsupported event type: " \o store[id].eventType

C29_Step ==
  \A id \in Rows(store) :
    (C29_IsOtherType(store[id]) /\ store[id].status = "IGNORED") =>
      store'[id] = store[id]

C29_OtherTypeIsIgnored == []C29_State /\ [][C29_Step]_vars

\* C30: triggerProcessor returns to its caller at once (it starts the pass
\* and does none of its work) and no error of the pass escapes it; it starts
\* a pass only if none is running; it is called by the interval timer every
\* 3 s and once after each request whose insert succeeded; once shutdown has
\* begun every call, the one an earlier request queued included, does
\* nothing, so no pass starts after the shutdown flag is set.
C30_State ==
  /\ srv.isShuttingDown => ~srv.timer
  /\ (srv.timer /\ Alive) =>
       /\ srv.timerAt = (srv.fired + 1) * TRIGGER_INTERVAL_MS
       /\ clock <= srv.timerAt
       /\ srv.timerAt - clock <= TRIGGER_INTERVAL_MS
  /\ activeRun[Server] => srv.signal = passes

C30_TriggerStep ==
  (IntervalFires \/ WebhookImmediate) =>
    /\ store' = store /\ nextId' = nextId /\ clock' = clock
    /\ events' = events /\ idx' = idx /\ result' = result
    /\ IF srv.isShuttingDown \/ activeRun[Server]
         THEN UNCHANGED <<activeRun, pc, now, passes>>
         ELSE /\ passes' = passes + 1
              /\ activeRun'[Server] /\ pc'[Server] = "fetch"
              /\ now'[Server] = clock
    /\ ~srv'.exited

C30_Step ==
  /\ C30_TriggerStep
  /\ passes' # passes =>
       /\ IntervalFires \/ WebhookImmediate
       /\ ~srv.isShuttingDown /\ ~srv'.isShuttingDown
       /\ ~activeRun[Server]
  /\ IntervalFires =>
       /\ clock = srv.timerAt
       /\ srv'.timerAt = clock + TRIGGER_INTERVAL_MS
  /\ WebhookRespond =>
       srv'.req.pc = IF srv.req.inserted THEN "immediate" ELSE "none"
  /\ WebhookImmediate =>
       /\ srv.req.inserted /\ srv.req.status = 200 /\ ~srv.req.triggered
       /\ srv'.req.triggered /\ srv'.req.pc = "none"
  /\ FetchFails(Server) =>
       /\ srv.signal = passes
       /\ srv' = srv /\ ~activeRun'[Server]

C30_Trigger == []C30_State /\ [][C30_Step]_vars

\* the request was stored and acknowledged, a signal set the shutdown flag,
\* and the trigger the request had queued then ran: no pass was ever started
C30_Witness ==
  /\ srv.isShuttingDown
  /\ srv.req.inserted /\ srv.req.triggered /\ srv.req.pc = "none"
  /\ passes = 0 /\ srv.fired = 0
  /\ ~activeRun[Server]

\* C21: the cleanup deletes an event row only if its status is DONE, IGNORED
\* or FAILED_TERMINAL and it was received more than 30 days ago; a row in
\* RECEIVED, PROCESSING or FAILED_RETRYABLE is never deleted, whatever its
\* age; and at most one cleanup runs at a time in a process.
C21_Deleted(id) == store[id] # NoRow /\ store'[id] = NoRow
C21_DaysAgo(d) == (clock - 15 * DAY_MS) - (d - 15) * DAY_MS

C21_State ==
  /\ Len(srv.cleanupRuns) <= 1
  /\ srv.cleanupInFlight <=> Len(srv.cleanupRuns) = 1

C21_Step ==
  \A id \in RowIds :
    /\ C21_Deleted(id) =>
         /\ store[id].status \in {"DONE", "IGNORED", "FAILED_TERMINAL"}
         /\ store[id].receivedAt < C21_DaysAgo(30)
         /\ \E i \in 1..Len(srv.cleanupRuns) : CleanupDeletesEvents(i)
    /\ (store[id] # NoRow
          /\ store[id].status \in {"RECEIVED", "PROCESSING", "FAILED_RETRYABLE"})
         => store'[id] # NoRow

C21_Cleanup == []C21_State /\ [][C21_Step]_vars

\* the cleanup deleted the first row and kept the second, which was received
\* 31 days ago and is PROCESSING (no pass ran), and a callback of the cleanup
\* timer found a cleanup in flight
C21_Witness ==
  /\ store[1] = NoRow
  /\ store[2] # NoRow /\ store[2].status = "PROCESSING"
  /\ store[2].receivedAt = Oldest
  /\ passes = 0
  /\ srv.cleanupSkipped >= 1

\* C31: within one pass the fetched events are attempted one after another in
\* the order of the fetch (nextTryAt, then lineTimestampMs ascending): the
\* loop claims the event at the next position only when the pass holds no
\* claimed event, that is after the outcome of the previous one was written
\* or its claim was lost; a pass handles at most BATCH_SIZE events and never
\* goes back to an event.
C31_InLoop(p) == p \in {"claim", "dispatch", "mark"}

C31_Written(st, id, r) ==
  st[id].status = CASE r.type = "done" -> "DONE"
                    [] r.type = "ignored" -> "IGNORED"
                    [] r.type = "terminal" -> "FAILED_TERMINAL"
                    [] OTHER -> "FAILED_RETRYABLE"

C31_State ==
  \A w \in Workers :
    /\ Len(events[w]) <= BATCH_SIZE
    /\ \A i, j \in 1..Len(events[w]) :
         i < j => /\ events[w][i].id # events[w][j].id
                  /\ ~Before(events[w][j], events[w][i])
    /\ C31_InLoop(pc[w]) => idx[w] \in 1..Len(events[w])
    /\ pc[w] \in {"fetch", "claim"} =>
         result[w] = NoResult /\ held[w].id = 0
    /\ pc[w] \in {"dispatch", "mark"} =>
         held[w].id = events[w][idx[w]].id

C31_Step ==
  \A w \in Workers :
    /\ (pc[w] = "fetch" /\ pc'[w] = "claim") => idx'[w] = 1
    /\ (C31_InLoop(pc[w]) /\ C31_InLoop(pc'[w])) =>
         /\ events'[w] = events[w]
         /\ idx'[w] \in {idx[w], idx[w] + 1}
         /\ idx'[w] = idx[w] + 1 =>
              /\ pc'[w] = "claim"
              /\ \/ pc[w] = "claim" /\ store' = store
                 \/ /\ pc[w] = "mark"
                    /\ C31_Written(store', events[w][idx[w]].id, result[w])
    /\ (C31_InLoop(pc[w]) /\ pc'[w] = "dispatch" /\ pc[w] # "dispatch") =>
         /\ pc[w] = "claim" /\ idx'[w] = idx[w]
         /\ store'[events[w][idx[w]].id].status = "PROCESSING"

C31_Handled ==
  \A id \in RowIds :
    hist'[id].calls # hist[id].calls =>
      \E w \in Workers :
        /\ pc[w] = "dispatch" /\ pc'[w] = "mark"
        /\ events[w][idx[w]].id = id

C31_OneAfterAnother == []C31_State /\ [][C31_Step /\ C31_Handled]_vars

\* a pass that fetched two rows has written the outcome of the first and
\* holds the claim of the second
C31_Witness ==
  \E w \in Workers :
    /\ Len(events[w]) = 2 /\ idx[w] = 2 /\ pc[w] = "dispatch"
    /\ store[events[w][1].id].status \in {"DONE", "IGNORED"}
    /\ hist[events[w][1].id].claims = 1
    /\ crashes = 0

\* C32: a row written FAILED_RETRYABLE gets a nextTryAt later than the time
\* of the write, and at least delay(a) later, a being the attempt that
\* failed (the attemptCount of the row): no claim for attempt a + 1 matches
\* earlier than delay(a) after the failure of attempt a was recorded.
C32_RetryableWrite(w) ==
  /\ pc[w] = "mark" /\ result[w].type = "retryable"
  /\ WriteBack(w)

C32_Step ==
  \A w \in Workers :
    C32_RetryableWrite(w) =>
      LET id == events[w][idx[w]].id
      IN /\ store'[id].status = "FAILED_RETRYABLE"
         /\ store'[id].nextTryAt > clock
         /\ store'[id].nextTryAt >= clock + delayMs(store[id].attemptCount)

C32_BackoffRespected == [][C32_Step]_vars

\* C33: a pass that neither crashes nor meets a store error writes an outcome
\* for every row it claimed, and the write takes the row out of PROCESSING:
\* DONE with lastErrorMessage null when dispatch returned done, IGNORED with
\* the reason as lastErrorMessage when it returned ignored, FAILED_RETRYABLE
\* or FAILED_TERMINAL with the error message when it raised; every DONE row
\* has lastErrorMessage null.
C33_State ==
  \A id \in Rows(store) :
    store[id].status = "DONE" =>
      store[id].lastErrorMessage = NullStr /\ store[id].nextTryAt = Null

C33_Outcome(w) ==
  LET id == events[w][idx[w]].id
      r == result[w]
      row == store'[id]
  IN /\ row.status # "PROCESSING"
     /\ (~held[w].raised /\ r.type = "done") =>
          /\ row.status = "DONE"
          /\ row.lastErrorMessage = NullStr
     /\ (~held[w].raised /\ r.type = "ignored") =>
          /\ row.status = "IGNORED"
          /\ row.lastErrorMessage = r.message
          /\ r.message # NullStr /\ r.message # ""
     /\ held[w].raised =>
          /\ row.status \in {"FAILED_RETRYABLE", "FAILED_TERMINAL"}
          /\ row.lastErrorMessage = toErrorMessage(held[w].err)
     /\ ~held[w].raised => r.type \in {"done", "ignored"}

C33_Step ==
  \A w \in Workers :
    /\ (pc[w] = "mark" /\ WriteBack(w)) => C33_Outcome(w)
    /\ (pc[w] \in {"dispatch", "mark"} /\ pc'[w] \notin {"dispatch", "mark"}) =>
         \/ crashes' # crashes
         \/ pc[w] = "mark" /\ C33_Outcome(w)
    /\ (pc[w] = "dispatch" /\ pc'[w] = "mark") =>
         (held'[w].raised <=> result'[w].type \in {"terminal", "retryable"})

C34_New(st, id) ==
  /\ st[id] # NoRow
  /\ st[id].status = "RECEIVED" /\ st[id].attemptCount = 0

C34_InsertStep ==
  \A id \in RowIds :
    (store[id] = NoRow /\ store'[id] # NoRow) =>
      /\ C34_New(store', id)
      /\ store'[id].nextTryAt = clock
      /\ store'[id].receivedAt = clock
      /\ \A n \in {clock, MaxClock} :
           \A s \in fetchDueEvents(store', BATCH_SIZE, n) :
             \E i \in 1..Len(s) : s[i].id = id

C34_FetchStep ==
  \A w \in Workers :
    FetchDue(w) =>
      LET s == events'[w]
      IN /\ \A id \in RowIds :
              (C34_New(store, id) /\ store[id].receivedAt <= now[w]) =>
                \E i \in 1..Len(s) : s[i] = store[id]
         /\ \A i, j \in 1..Len(s) :
              (i < j /\ C34_New(store, s[i].id) /\ C34_New(store, s[j].id)
                 /\ s[i].receivedAt = s[j].receivedAt) =>
                s[i].lineTimestampMs <= s[j].lineTimestampMs

C34_State ==
  \A id \in RowIds :
    C34_New(store, id) =>
      /\ store[id].nextTryAt = store[id].receivedAt
      /\ store[id].nextTryAt <= clock
      /\ hist[id].claims = 0

C35_Step ==
  \A id \in RowIds :
    (store[id] # NoRow /\ store[id].status \in TerminalStatuses) =>
      /\ store'[id] # NoRow
      /\ store'[id].status = store[id].status
      /\ store'[id].nextTryAt = Null

C35_TerminalIsAbsorbing == [][C35_Step]_vars

\* C36: the attempt number a worker uses for the retry decision is the
\* attemptCount its successful claim stored in the row, also when another
\* worker claimed the row between this worker's fetch and its claim.
C36_Step ==
  \A w \in Workers :
    (pc[w] = "claim" /\ pc'[w] = "dispatch") =>
      LET event == events[w][idx[w]]
          currentAttempt == event.attemptCount + 1
      IN currentAttempt = store'[event.id].attemptCount

C36_AttemptMatchesStoredCount == [][C36_Step]_vars

\* C37: a successful claim stores a nextTryAt at least LEASE_TIME_MS (60 s)
\* later than the moment the claim is executed, also for an event claimed
\* late in a long pass: the row is not claimable by another worker before
\* that moment plus LEASE_TIME_MS.
C37_Step ==
  \A w \in Workers :
    (pc[w] = "claim" /\ pc'[w] = "dispatch") =>
      LET id == events[w][idx[w]].id
      IN /\ store'[id].status = "PROCESSING"
         /\ store'[id].nextTryAt >= clock + LEASE_TIME_MS

C37_FullLease == [][C37_Step]_vars

\* C38: when a pass ends, after its last event or because a store call
\* raised, activeRun is cleared: the next trigger starts a pass of its own and
\* waitForProcessorIdle is true; activeRun is set exactly while the loop of a
\* pass is running.
C38_State ==
  /\ activeRun[Server] = (pc[Server] # "idle")
  /\ srv.wait.state = "false" => srv.wait.inFlight

C38_Failed ==
  \/ FetchFails(Server) \/ ClaimFails(Server) \/ MarkFailureFails(Server)

C38_Step ==
  /\ (pc[Server] # "idle" /\ pc'[Server] = "idle") => ~activeRun'[Server]
  /\ C38_Failed => (pc'[Server] = "idle" /\ ~activeRun'[Server])
  /\ (pc[Server] # "idle" /\ pc'[Server] # "idle") =>
       (activeRun'[Server] /\ passes' = passes)
  /\ ((TimerFires \/ WebhookImmediate) /\ ~activeRun[Server]) =>
       /\ passes' = passes + 1
       /\ activeRun'[Server] /\ pc'[Server] = "fetch"
       /\ now'[Server] = clock /\ srv'.signal = passes'
  /\ (\E timeoutMs \in WaitTimeouts : CallIdleWait(timeoutMs)) =>
       (srv'.wait.state = "true" <=> ~activeRun[Server])
  /\ (srv.wait.state = "pending" /\ ~activeRun[Server]) =>
       srv'.wait.state = "true"
  /\ (srv.wait.state = "pending" /\ srv'.wait.state = "true") =>
       ~activeRun[Server]

C38_MarkerCleared == []C38_State /\ [][C38_Step]_vars

\* a pass ended when the failure write of its claimed event raised (the row
\* is left PROCESSING), the wait pending on it became true, and the next
\* trigger has started the second pass
C38_Witness ==
  /\ passes = 2 /\ pc[Server] = "fetch" /\ activeRun[Server]
  /\ srv.wait.state = "true" /\ srv.wait.inFlight
  /\ \E id \in Rows(store) :
       store[id].status = "PROCESSING" /\ store[id].nextTryAt > now[Server]

\* C39: when the handler of a claimed event has returned normally the attempt
\* is not recorded as a failure: the pass writes DONE or IGNORED for it and
\* not FAILED_RETRYABLE or FAILED_TERMINAL, also when the markEventDone or
\* markEventIgnored call after the handler raises.
C39_HandlerReturned(w) ==
  /\ pc[w] = "mark"
  /\ held[w].handler # "none"
  /\ held[w].raised => held[w].err = StoreFailure

C39_Step ==
  \A w \in Workers :
    (C39_HandlerReturned(w) /\ (WriteBack(w) \/ MarkOutcomeFails(w))) =>
      /\ result'[w].type \notin {"terminal", "retryable"}
      /\ store'[events[w][idx[w]].id].status
           \notin {"FAILED_RETRYABLE", "FAILED_TERMINAL"}

C39_ReturnedIsNeverFailure == [][C39_Step]_vars

\* C40: withDbRetry invokes the operation again only after it failed with a
\* serialization conflict (code 40001, or a message that includes 40001 or
\* 'restart transaction'), at most maxRetries times, so at most
\* maxRetries + 1 invocations in all (4 with the default of 3); any other
\* error is rethrown after the invocation that raised it, and the first
\* result of an invocation that resolved is returned.
C40_Conflict(e) ==
  e.code = "40001" \/ "40001" \in e.includes
    \/ "restart transaction" \in e.includes

C40_State ==
  probe.op = "withDbRetry" =>
    LET n == Len(probe.calls)
    IN /\ n <= probe.maxRetries + 1
       /\ probe.maxRetries = 3 => n <= 4
       /\ \A i \in 1..(n - 1) : C40_Conflict(probe.calls[i])
       /\ (n > 0 /\ probe.calls[n] = DbResolved) => probe.pc = "returned"
       /\ (n > 0 /\ probe.calls[n] # DbResolved
             /\ ~C40_Conflict(probe.calls[n])) => probe.pc = "thrown"
       /\ probe.pc = "returned" => probe.calls[n] = DbResolved
       /\ probe.pc = "thrown" => probe.calls[n] # DbResolved

C40_WithDbRetry == []C40_State

====
